---- MODULE Spec2Model ----
(***************************************************************************)
(* A model of recherche-entreprises: the registry search client            *)
(* (search_pappers), the web orchestrator (api_search), the enrichment     *)
(* client (_do_fullenrich_enrich, api_fullenrich_enrich), the stored-lead  *)
(* handlers (api_vendeurs_create, _update, _delete) and the workforce       *)
(* filter (_filter_effectif).                                              *)
(*                                                                         *)
(* Each component has a specification of its own over the same variables:  *)
(*   SpecSearch  search_pappers called directly (the CLI path)             *)
(*   SpecApi     POST /api/search: validation, arguments, search, reply    *)
(*   SpecEnrich  POST /api/fullenrich/enrich and _do_fullenrich_enrich     *)
(*   SpecLeads   the lead handlers, one request at a time                  *)
(*   SpecFilter  _filter_effectif applied to a list of records             *)
(*   SpecSearchLive  search_pappers under weak fairness of its loop        *)
(*   SpecOrch    the detail loop, filters and reply of api_search          *)
(*   SpecExtract, SpecWorkforce, SpecExecutive                             *)
(*               extract_company_info applied to one pair of records       *)
(*   SpecRegion  region_to_code applied once and twice                     *)
(*   SpecQuery   the query parameters search_pappers sends                 *)
(*   SpecCli     enrich_with_fullenrich, the batch enrichment              *)
(*   SpecMain    step 3 of main around it                                  *)
(*   SpecServiceEnrich  the two service operations that run an enrichment  *)
(*   SpecConc    overlapping api_vendeurs_create requests                  *)
(*   SpecPair    the two polling loops given the same answers              *)
(***************************************************************************)
EXTENDS Integers, Sequences, FiniteSets, TLC

VARIABLES
    \* --- search_pappers (src/recherche_entreprises.py:180-276) ---
    spc,            \* position: "idle" | "loop" | "break" | "returned" | "raised"
    max_resultats,  \* args.max_resultats
    companies,      \* the accumulation list
    page,           \* the page counter
    search_result,  \* the value returned
    requests,       \* log: the page number of every request issued, in order
    received,       \* log: the result pages of the 2xx replies, in order
    failedAt,       \* log: index in requests of the failed request, 0 if none
    totals,         \* log: the "total" of the 2xx replies, in order
    \* --- api_search (src/app.py:183-258) ---
    apc,            \* position: "idle" | "validate" | "search" | "done"
    data,           \* the JSON body of the request
    args,           \* the SimpleNamespace built from it
    response,       \* the HTTP response
    \* --- _do_fullenrich_enrich / api_fullenrich_enrich (src/app.py:311-420) ---
    epc,            \* position: "idle" | "start" | "submit" | "poll" | "ended" | "done"
    contacts,       \* the number of contacts in the request
    submitted,      \* log: bulk submissions (POST) issued
    polls,          \* log: polls issued so far
    nonTerminal,    \* log: polls that reported a non-terminal status
    lastPoll,       \* log: the last poll reply
    enrich_result,  \* the dict returned, NoResult if none
    raised,         \* log: the exceptions raised, in order
    eresponse,      \* the HTTP response of api_fullenrich_enrich
    \* --- stored leads (src/app.py:503-578) ---
    lpc,            \* position: "idle" | "ready"
    vendeurs,       \* the table: a set of rows
    nextId,         \* the identifier the datastore gives the next row
    lastReq,        \* log: the last request handled (its operation; a create's siren)
    lresponse,      \* its HTTP response
    \* --- _filter_effectif (src/app.py:132-151) ---
    fpc,            \* position: "idle" | "call" | "returned"
    f_companies,    \* the argument list
    f_min,          \* min_val
    f_max,          \* max_val
    f_result,       \* the list returned
    \* --- the detail loop, filters and reply of api_search (src/app.py:230-258) ---
    opc,            \* position: "idle" | "details" | "done" | "raised"
    companies_raw,  \* the hits the search returned
    o_args,         \* the post-filter bounds of args
    fetches,        \* log: the detail requests issued, in order
    details_used,   \* log: the detail record of every hit processed
    companies_info, \* the extracted records
    clean,          \* the rows of the response
    oresponse,      \* the HTTP response
    \* --- extract_company_info (src/recherche_entreprises.py:299-424) ---
    xpc,            \* position: "idle" | "call" | "returned"
    x_company,      \* the search record
    x_details,      \* the detail record
    x_result,       \* what the call returned, or that it raised
    \* --- region_to_code (src/recherche_entreprises.py:65-78) ---
    rpc,            \* position: "idle" | "call" | "once" | "twice"
    r_in,           \* the input, and the table entry it was written from
    r_once,         \* region_to_code(input)
    r_twice,        \* region_to_code of that
    \* --- the query of search_pappers (src/recherche_entreprises.py:191-240) ---
    qpc,            \* position: "idle" | "loop"
    q_args,         \* the criteria search_pappers was called with
    q_page,         \* the page counter
    q_sent,         \* log: the page requests sent
    q_params,       \* log: the params of the last request
    \* --- enrich_with_fullenrich (src/recherche_entreprises.py:447-606) ---
    cpc,            \* position: "idle" | "start" | "submit" | "poll" | "returned"
    c_in,           \* companies_info as passed
    c_out,          \* the list returned
    c_shown,        \* log: what was displayed before the answer, in order
    c_answer,       \* log: what the operator answered at the prompt
    c_submitted,    \* log: bulk submissions (POST) issued
    c_polls,        \* log: polls issued
    c_outcome,      \* log: how the call ended
    c_payload,      \* log: the records of the FINISHED answer
    \* --- api_vendeurs_enrich (src/app.py:581-632) ---
    vpc,            \* position: "idle" | "start" | "enrich" | "done"
    v_lead,         \* the email and telephone of the stored lead
    vresponse,      \* the HTTP response
    \* --- overlapping api_vendeurs_create requests (src/app.py:503-542) ---
    w_pc,           \* per request, position: "idle" | "check" | "insert" | "done"
    w_body,         \* per request, the body (siren, statut)
    w_status,       \* per request, the status of the response, 0 if none yet
    w_log,          \* log: the datastore steps taken, in order
    \* --- step 3 of main (src/recherche_entreprises.py:697-706) ---
    m_pc,           \* position: "idle" | "start" | "enrich" | "done"
    m_all,          \* companies_info after the extraction
    m_max,          \* args.max_enrichissements
    m_out           \* companies_info as exported

searchVars ==
    <<spc, max_resultats, companies, page, search_result, requests, received, failedAt, totals>>
apiVars    == <<apc, data, args, response>>
enrichVars == <<epc, contacts, submitted, polls, nonTerminal, lastPoll, enrich_result, raised, eresponse>>
leadVars   == <<lpc, vendeurs, nextId, lastReq, lresponse>>
filterVars == <<fpc, f_companies, f_min, f_max, f_result>>
orchVars == <<opc, companies_raw, o_args, fetches, details_used, companies_info, clean, oresponse>>
extractVars == <<xpc, x_company, x_details, x_result>>
regionVars == <<rpc, r_in, r_once, r_twice>>
queryVars == <<qpc, q_args, q_page, q_sent, q_params>>
cliVars == <<cpc, c_in, c_out, c_shown, c_answer, c_submitted, c_polls, c_outcome, c_payload>>
venrichVars == <<vpc, v_lead, vresponse>>
concVars == <<w_pc, w_body, w_status, w_log>>
mainVars == <<m_pc, m_all, m_max, m_out>>
extVars == <<orchVars, extractVars, regionVars, queryVars, cliVars, venrichVars, concVars, mainVars>>
exceptOrch == <<searchVars, apiVars, enrichVars, leadVars, filterVars, extractVars, regionVars, queryVars, cliVars, venrichVars, concVars, mainVars>>
exceptExtract == <<searchVars, apiVars, enrichVars, leadVars, filterVars, orchVars, regionVars, queryVars, cliVars, venrichVars, concVars, mainVars>>
exceptRegion == <<searchVars, apiVars, enrichVars, leadVars, filterVars, orchVars, extractVars, queryVars, cliVars, venrichVars, concVars, mainVars>>
exceptQuery == <<searchVars, apiVars, enrichVars, leadVars, filterVars, orchVars, extractVars, regionVars, cliVars, venrichVars, concVars, mainVars>>
exceptCli == <<searchVars, apiVars, enrichVars, leadVars, filterVars, orchVars, extractVars, regionVars, queryVars, venrichVars, concVars, mainVars>>
exceptVEnrich == <<searchVars, apiVars, leadVars, filterVars, orchVars, extractVars, regionVars, queryVars, cliVars, concVars, mainVars>>
exceptConc == <<searchVars, apiVars, enrichVars, filterVars, orchVars, extractVars, regionVars, queryVars, cliVars, venrichVars, mainVars>>
exceptMain == <<searchVars, apiVars, enrichVars, leadVars, filterVars, orchVars, extractVars, regionVars, queryVars, venrichVars, concVars>>
exceptPair == <<searchVars, apiVars, leadVars, filterVars, orchVars, extractVars, regionVars, queryVars, venrichVars, concVars, mainVars>>
vars == <<searchVars, apiVars, enrichVars, leadVars, filterVars, extVars>>

(***************************************************************************)
(* Values.  A JSON / Python value is a record with a kind, so that values  *)
(* of different Python types can be held in one field: None, an int, a     *)
(* str (a sequence of one-character strings) or a bool.                    *)
(***************************************************************************)
None     == [k |-> "none", n |-> 0, s |-> <<>>]
Num(i)   == [k |-> "int",  n |-> i, s |-> <<>>]
Str(cs)  == [k |-> "str",  n |-> 0, s |-> cs]
Bool(b)  == [k |-> "bool", n |-> IF b THEN 1 ELSE 0, s |-> <<>>]

Min(a, b) == IF a <= b THEN a ELSE b

\* Python truthiness: None, 0, "" and False are falsy.
Truthy(v) ==
    CASE v.k = "none" -> FALSE
      [] v.k = "int"  -> v.n # 0
      [] v.k = "str"  -> v.s # <<>>
      [] OTHER        -> v.n = 1

IsSpace(c) == c \in {" ", "\t"}

RECURSIVE LStrip(_)
LStrip(cs) == IF cs # <<>> /\ IsSpace(Head(cs)) THEN LStrip(Tail(cs)) ELSE cs

RECURSIVE RStrip(_)
RStrip(cs) ==
    IF cs # <<>> /\ IsSpace(cs[Len(cs)]) THEN RStrip(SubSeq(cs, 1, Len(cs) - 1)) ELSE cs

\* str.strip()
Strip(cs) == RStrip(LStrip(cs))

Digits == {"0", "1", "2", "3", "4", "5", "6", "7", "8", "9"}

DigitVal(c) ==
    CASE c = "0" -> 0 [] c = "1" -> 1 [] c = "2" -> 2 [] c = "3" -> 3 [] c = "4" -> 4
      [] c = "5" -> 5 [] c = "6" -> 6 [] c = "7" -> 7 [] c = "8" -> 8 [] c = "9" -> 9

RECURSIVE DigitsVal(_)
DigitsVal(cs) ==
    IF cs = <<>> THEN 0 ELSE 10 * DigitsVal(SubSeq(cs, 1, Len(cs) - 1)) + DigitVal(cs[Len(cs)])

AllDigits(cs) == cs # <<>> /\ \A i \in 1..Len(cs) : cs[i] \in Digits

\* int(val): [ok, v]; ok is FALSE where Python raises TypeError or ValueError.
\* A str is stripped, may carry one sign, and must then be all digits.
PyInt(v) ==
    CASE v.k = "int"  -> [ok |-> TRUE, v |-> v.n]
      [] v.k = "bool" -> [ok |-> TRUE, v |-> v.n]
      [] v.k = "none" -> [ok |-> FALSE, v |-> 0]
      [] OTHER ->
            LET t == Strip(v.s)
                signed == t # <<>> /\ Head(t) \in {"-", "+"}
                body == IF signed THEN Tail(t) ELSE t
            IN  IF AllDigits(body)
                THEN [ok |-> TRUE,
                      v |-> IF signed /\ Head(t) = "-" THEN 0 - DigitsVal(body) ELSE DigitsVal(body)]
                ELSE [ok |-> FALSE, v |-> 0]

(***************************************************************************)
(* The variables of a component that is not running.                       *)
(***************************************************************************)
NoResult == [enriched |-> <<>>, credits_used |-> 0, total_submitted |-> 0, set |-> FALSE]
NoResponse == [status |-> 0, kind |-> "none"]
NoArgs == [set |-> FALSE]
NoReply == [code |-> 0, status |-> "", data |-> <<>>, credits |-> 0]

IdleSearch ==
    /\ spc = "idle" /\ max_resultats = 0 /\ companies = <<>> /\ page = 1
    /\ search_result = <<>> /\ requests = <<>> /\ received = <<>> /\ failedAt = 0
    /\ totals = <<>>
IdleApi == apc = "idle" /\ data = <<>> /\ args = NoArgs /\ response = NoResponse
IdleEnrich ==
    /\ epc = "idle" /\ contacts = 0 /\ submitted = 0 /\ polls = 0 /\ nonTerminal = 0 /\ lastPoll = NoReply
    /\ enrich_result = NoResult /\ raised = <<>> /\ eresponse = NoResponse
IdleLeads ==
    /\ lpc = "idle" /\ vendeurs = {} /\ nextId = 1 /\ lastReq = [op |-> "none", siren |-> ""]
    /\ lresponse = NoResponse
IdleFilter == fpc = "idle" /\ f_companies = <<>> /\ f_min = None /\ f_max = None /\ f_result = <<>>
IdleOrch == opc = "idle" /\ companies_raw = <<>> /\ o_args = NoArgs /\ fetches = <<>> /\ details_used = <<>> /\ companies_info = <<>> /\ clean = <<>> /\ oresponse = NoResponse
IdleExtract == xpc = "idle" /\ x_company = <<>> /\ x_details = <<>> /\ x_result = <<>>
IdleRegion == rpc = "idle" /\ r_in = <<>> /\ r_once = <<>> /\ r_twice = <<>>
IdleQuery == qpc = "idle" /\ q_args = NoArgs /\ q_page = 1 /\ q_sent = 0 /\ q_params = <<>>
IdleCli == cpc = "idle" /\ c_in = <<>> /\ c_out = <<>> /\ c_shown = <<>> /\ c_answer = [kind |-> "none", text |-> <<>>] /\ c_submitted = 0 /\ c_polls = 0 /\ c_outcome = "" /\ c_payload = <<>>
IdleVEnrich == vpc = "idle" /\ v_lead = [email |-> "", telephone |-> ""] /\ vresponse = [status |-> 0, kind |-> "none", error |-> ""]
IdleConc == w_pc = <<>> /\ w_body = <<>> /\ w_status = <<>> /\ w_log = <<>>
IdleMain == m_pc = "idle" /\ m_all = <<>> /\ m_max = 0 /\ m_out = <<>>
IdleExt == IdleOrch /\ IdleExtract /\ IdleRegion /\ IdleQuery /\ IdleCli /\ IdleVEnrich /\ IdleConc /\ IdleMain
IdleExceptOrch == IdleExtract /\ IdleRegion /\ IdleQuery /\ IdleCli /\ IdleVEnrich /\ IdleConc /\ IdleMain
IdleExceptExtract == IdleOrch /\ IdleRegion /\ IdleQuery /\ IdleCli /\ IdleVEnrich /\ IdleConc /\ IdleMain
IdleExceptRegion == IdleOrch /\ IdleExtract /\ IdleQuery /\ IdleCli /\ IdleVEnrich /\ IdleConc /\ IdleMain
IdleExceptQuery == IdleOrch /\ IdleExtract /\ IdleRegion /\ IdleCli /\ IdleVEnrich /\ IdleConc /\ IdleMain
IdleExceptCli == IdleOrch /\ IdleExtract /\ IdleRegion /\ IdleQuery /\ IdleVEnrich /\ IdleConc /\ IdleMain
IdleExceptVEnrich == IdleOrch /\ IdleExtract /\ IdleRegion /\ IdleQuery /\ IdleCli /\ IdleConc /\ IdleMain
IdleExceptConc == IdleOrch /\ IdleExtract /\ IdleRegion /\ IdleQuery /\ IdleCli /\ IdleVEnrich /\ IdleMain
IdleExceptMain == IdleOrch /\ IdleExtract /\ IdleRegion /\ IdleQuery /\ IdleCli /\ IdleVEnrich /\ IdleConc
IdlePair == IdleSearch /\ IdleApi /\ IdleLeads /\ IdleFilter /\ IdleExceptCli

(***************************************************************************)
(* search_pappers: src/recherche_entreprises.py:180-276                    *)
(***************************************************************************)
\* The page size never exceeds 100 (line 189).
PAR_PAGE_CAP == 100
\* max_resultats is drawn up to MaxPages full pages (plus or minus one record).
MaxPages == 2
\* A remote total that no cap of the model reaches.
BigTotal == 100000

MaxResultatsDomain ==
    {0, 1, 2} \cup {PAR_PAGE_CAP * k + d : k \in 1..MaxPages, d \in {-1, 0, 1}}

\* par_page = min(100, args.max_resultats)
ParPage(m) == Min(PAR_PAGE_CAP, m)

\* The i-th record of the reply to the request for page p.
RecId(p, i) == p * 1000 + i
PageOf(p, n) == [i \in 1..n |-> RecId(p, i)]

\* What the remote may answer to the request for page p: a network error, a
\* non-2xx status, a 2xx body that is no JSON object (data.get raises
\* AttributeError, which neither except clause catches), or a 2xx body with
\* "resultats" of any length (the remote is not bound to par_page) and any
\* "total".
PageLens(pp) == {n \in {0, 1, pp - 1, pp, pp + 1} : n >= 0}
Totals(m) == {t \in {0, PAR_PAGE_CAP, m - 1, m, BigTotal} : t >= 0}
ErrorReply(kind) == [kind |-> kind, resultats |-> <<>>, total |-> 0]
OkReply(rs, t) == [kind |-> "ok", resultats |-> rs, total |-> t]
SearchReplies(p, m) ==
    {ErrorReply("network_error"), ErrorReply("http_error"), ErrorReply("bad_body")}
    \cup {OkReply(PageOf(p, n), t) : n \in PageLens(ParPage(m)), t \in Totals(m)}

\* companies.extend(results), line 266
Extend_prepend(cs, rs) == rs \o cs
Extend(cs, rs) == cs \o rs

\* companies[: args.max_resultats], line 276 (max_resultats >= 0)
Truncate_none(cs, m) == cs
Truncate(cs, m) == SubSeq(cs, 1, Min(m, Len(cs)))

\* except HTTPError / RequestException: print, break (lines 250-255)
AfterRequestError_retry == "loop"
AfterRequestError == "break"

\* if remaining <= 0 or len(results) < par_page: break (lines 267-271)
StopAfterPage_noShort(total, m, acc, n) == Min(total, m) - acc <= 0
StopAfterPage(total, m, acc, n) ==
    LET remaining == Min(total, m) - acc
    IN  remaining <= 0 \/ n < ParPage(m)

\* One iteration of the while loop: the request for the current page and
\* the handling of its reply.
SearchPage ==
    /\ spc = "loop"
    /\ Len(companies) < max_resultats
    /\ \E reply \in SearchReplies(page, max_resultats) :
        /\ requests' = Append(requests, page)
        /\ CASE reply.kind \in {"network_error", "http_error"} ->
                    /\ spc' = AfterRequestError
                    /\ failedAt' = Len(requests) + 1
                    /\ UNCHANGED <<companies, page, received, totals>>
             [] reply.kind = "bad_body" ->
                    /\ spc' = "raised"
                    /\ UNCHANGED <<companies, page, received, failedAt, totals>>
             [] OTHER ->
                    /\ received' = Append(received, reply.resultats)
                    /\ totals' = Append(totals, reply.total)
                    /\ UNCHANGED failedAt
                    /\ IF reply.resultats = <<>>
                       THEN spc' = "break" /\ UNCHANGED <<companies, page>>
                       ELSE /\ companies' = Extend(companies, reply.resultats)
                            /\ IF StopAfterPage(reply.total, max_resultats,
                                                Len(companies'), Len(reply.resultats))
                               THEN spc' = "break" /\ UNCHANGED page
                               ELSE spc' = "loop" /\ page' = page + 1
    /\ UNCHANGED <<max_resultats, search_result>>
    /\ UNCHANGED <<apiVars, enrichVars, leadVars, filterVars, extVars>>

\* The loop is left (break, or the while condition is false): return.
SearchReturn ==
    /\ spc = "break" \/ (spc = "loop" /\ ~(Len(companies) < max_resultats))
    /\ search_result' = Truncate(companies, max_resultats)
    /\ spc' = "returned"
    /\ UNCHANGED <<max_resultats, companies, page, requests, received, failedAt, totals>>
    /\ UNCHANGED <<apiVars, enrichVars, leadVars, filterVars, extVars>>

InitSearch ==
    /\ spc = "loop" /\ max_resultats \in MaxResultatsDomain /\ companies = <<>> /\ page = 1
    /\ search_result = <<>> /\ requests = <<>> /\ received = <<>> /\ failedAt = 0
    /\ totals = <<>>
    /\ IdleApi /\ IdleEnrich /\ IdleLeads /\ IdleFilter /\ IdleExt

NextSearch == SearchPage \/ SearchReturn

SpecSearch == InitSearch /\ [][NextSearch]_vars

RECURSIVE Flatten(_)
Flatten(ps) == IF ps = <<>> THEN <<>> ELSE Head(ps) \o Flatten(Tail(ps))

IsPrefix(a, b) == Len(a) <= Len(b) /\ a = SubSeq(b, 1, Len(a))

\* C1: the list search_pappers returns holds at most max_resultats records and
\* is a prefix of the concatenation, in page order, of the result pages received.
C1_CappedPrefix ==
    spc = "returned" =>
        /\ Len(search_result) <= max_resultats
        /\ IsPrefix(search_result, Flatten(received))

\* C1 witness: three pages were received and the returned list is cut to the cap.
C1_Witness ==
    /\ spc = "returned" /\ Len(received) = 3
    /\ Len(search_result) = max_resultats /\ Len(Flatten(received)) > max_resultats

\* C2: once a page request has failed no further request is issued, and the
\* list returned is exactly what the earlier pages accumulated, truncated to
\* max_resultats.
C2_AbortOnError ==
    failedAt # 0 =>
        /\ Len(requests) = failedAt
        /\ spc \in {"break", "returned"}
        /\ spc = "returned" =>
              LET acc == Flatten(received)
              IN  search_result = SubSeq(acc, 1, Min(max_resultats, Len(acc)))

\* C2 witness: the request for page 2 failed after a full first page, and the
\* first page's records were returned.
C2_Witness ==
    /\ failedAt = 2 /\ spc = "returned" /\ requests = <<1, 2>>
    /\ search_result = PageOf(1, PAR_PAGE_CAP)

\* The scheduling of search_pappers: the loop is a sequential program, so a
\* step that is possible is eventually taken.
SpecSearchLive == SpecSearch /\ WF_vars(NextSearch)

\* The k-th 2xx reply is one after which the search is to stop: it is empty,
\* shorter than the page size, or brings the accumulated count to
\* min(total, max_resultats).
StopDue(k) ==
    \/ received[k] = <<>>
    \/ Len(received[k]) < Min(PAR_PAGE_CAP, max_resultats)
    \/ Len(Flatten(SubSeq(received, 1, k))) >= Min(totals[k], max_resultats)

\* C19: whatever the remote answers the search ends; the pages requested are
\* 1, 2, 3, ... in that order, each once, none after a failed request; and no
\* page is requested after a reply that is empty, shorter than the page size,
\* or that brings the accumulated count to min(total, max_resultats).
C19_TerminatesInOrder ==
    /\ <>(spc \in {"returned", "raised"})
    /\ [](/\ requests = [i \in 1..Len(requests) |-> i]
          /\ failedAt # 0 => Len(requests) = failedAt
          /\ \A k \in 1..Len(received) :
                StopDue(k) => (Len(requests) = k /\ spc \in {"break", "returned"}))

\* C19 witness: after two full pages a third, short page was received and
\* the search returned after three requests.
C19_Witness ==
    /\ spc = "returned" /\ requests = <<1, 2, 3>> /\ Len(received) = 3
    /\ Len(received[3]) = 1 /\ totals[3] = BigTotal

(***************************************************************************)
(* api_search: src/app.py:181-258                                          *)
(***************************************************************************)
\* The keys api_search reads from the JSON body.
StrFields ==
    {"secteur", "region", "departement", "ville", "nom_entreprise", "nom_dirigeant",
     "prenom_dirigeant", "forme_juridique", "date_creation_min", "statut_rcs"}
NumFields ==
    {"ca_min", "ca_max", "age_min_dirigeant", "max_resultats", "effectif_min",
     "effectif_max", "resultat_net_min", "resultat_net_max"}
BoolFields == {"en_activite"}
Fields == StrFields \cup NumFields \cup BoolFields

\* The values a key may carry: text fields an empty, a blank or a non-blank
\* string; numeric fields a JSON number or a string, numeric or not.
ValuesOf(f) ==
    IF f \in StrFields THEN {Str(<<>>), Str(<<" ">>), Str(<<"x">>)}
    ELSE IF f \in NumFields THEN {Num(0), Num(5), Str(<<"7">>), Str(<<"a">>)}
    ELSE {Bool(TRUE), Bool(FALSE)}

\* A request body carries at most MaxPresent keys; a missing key reads None.
MaxPresent == 1
EmptyRequest == [f \in Fields |-> None]
RECURSIVE RequestsUpTo(_)
RequestsUpTo(k) ==
    IF k = 0 THEN {EmptyRequest}
    ELSE LET R == RequestsUpTo(k - 1)
         IN  R \cup UNION {{[d EXCEPT ![f] = v] : d \in R, v \in ValuesOf(f)} : f \in Fields}
Requests == RequestsUpTo(MaxPresent)

\* data.get(key, "")
GetOrEmpty(d, f) == IF d[f] = None THEN Str(<<>>) ELSE d[f]

\* _int(val), lines 125-129: int(val) if val else None; None on a failed int().
_int(val) ==
    IF ~Truthy(val) THEN None
    ELSE IF PyInt(val).ok THEN Num(PyInt(val).v) ELSE None

\* data.get(key, "").strip() or None
StripOrNone(d, f) ==
    LET t == Strip(GetOrEmpty(d, f).s) IN IF t = <<>> THEN None ELSE Str(t)

\* The any([...]) of lines 188-198: secteur is stripped first (line 185), the
\* other eight values are tested as received.
RawChecked_noVille ==
    {"region", "departement", "ca_min", "ca_max", "nom_entreprise", "nom_dirigeant",
     "prenom_dirigeant"}
RawChecked ==
    {"region", "departement", "ca_min", "ca_max", "ville", "nom_entreprise",
     "nom_dirigeant", "prenom_dirigeant"}
ValidationPasses(d) ==
    \/ Strip(GetOrEmpty(d, "secteur").s) # <<>>
    \/ \E f \in RawChecked : Truthy(d[f])

\* _int(data.get("max_resultats")) or 20, line 208
DEFAULT_WEB_MAX_RESULTATS == 20

\* args = SimpleNamespace(...), lines 201-222
BuildArgs(d) ==
    [set |-> TRUE,
     secteur |-> Str(Strip(GetOrEmpty(d, "secteur").s)),
     region |-> StripOrNone(d, "region"),
     departement |-> StripOrNone(d, "departement"),
     ca_min |-> _int(d["ca_min"]),
     ca_max |-> _int(d["ca_max"]),
     age_min_dirigeant |-> _int(d["age_min_dirigeant"]),
     max_resultats |-> IF Truthy(_int(d["max_resultats"])) THEN _int(d["max_resultats"]).n
                       ELSE DEFAULT_WEB_MAX_RESULTATS,
     nom_entreprise |-> StripOrNone(d, "nom_entreprise"),
     nom_dirigeant |-> StripOrNone(d, "nom_dirigeant"),
     prenom_dirigeant |-> StripOrNone(d, "prenom_dirigeant"),
     categorie_juridique |-> StripOrNone(d, "forme_juridique"),
     effectif_min |-> _int(d["effectif_min"]),
     effectif_max |-> _int(d["effectif_max"]),
     resultat_net_min |-> _int(d["resultat_net_min"]),
     resultat_net_max |-> _int(d["resultat_net_max"]),
     date_creation_min |-> StripOrNone(d, "date_creation_min"),
     ville |-> StripOrNone(d, "ville"),
     statut_rcs |-> StripOrNone(d, "statut_rcs"),
     entreprise_cessee |-> ~Truthy(IF d["en_activite"] = None THEN Bool(TRUE)
                                   ELSE d["en_activite"])]

\* Lines 184-226: the validation, then the arguments and the call of
\* search_pappers.
ApiValidate ==
    /\ apc = "validate"
    /\ IF ~ValidationPasses(data)
       THEN /\ response' = [status |-> 400, kind |-> "error"]
            /\ apc' = "done"
            /\ UNCHANGED <<args, searchVars, extVars>>
       ELSE /\ args' = BuildArgs(data)
            /\ apc' = "search"
            /\ spc' = "loop"
            /\ max_resultats' = args'.max_resultats
            /\ UNCHANGED <<response, companies, page, search_result, requests, received,
                           failedAt, totals>>
    /\ UNCHANGED <<data, enrichVars, leadVars, filterVars, extVars>>

\* Lines 225-258: an exception of search_pappers is answered 502, a returned
\* list with the results body.  The detail fetch, extraction and filters of
\* lines 230-256 shape the body's records, not the kind of the reply.
ApiRespond ==
    /\ apc = "search"
    /\ spc \in {"returned", "raised"}
    /\ response' = IF spc = "raised" THEN [status |-> 502, kind |-> "error"]
                   ELSE [status |-> 200, kind |-> "results"]
    /\ apc' = "done"
    /\ UNCHANGED <<data, args, searchVars, enrichVars, leadVars, filterVars, extVars>>

InitApi ==
    /\ apc = "validate" /\ data \in Requests /\ args = NoArgs /\ response = NoResponse
    /\ IdleSearch /\ IdleEnrich /\ IdleLeads /\ IdleFilter /\ IdleExt

NextApi == ApiValidate \/ SearchPage \/ SearchReturn \/ ApiRespond

SpecApi == InitApi /\ [][NextApi]_vars

\* C3 (as claimed): whenever a search page request failed, api_search ends with
\* an error response and not with a results response.
C3_SearchFailureIsFatal ==
    (apc = "done" /\ failedAt # 0) => response.kind = "error"

\* The fields that are search criteria (the result cap and the active flag
\* are left out), and a criterion that is present with a usable value.
CriterionFields == Fields \ {"max_resultats", "en_activite"}
Usable(f, v) ==
    IF f \in StrFields THEN v.k = "str" /\ Strip(v.s) # <<>> ELSE _int(v) # None
OnlyCriterion(d, f) ==
    /\ Usable(f, d[f])
    /\ \A g \in Fields \ {f} : d[g] = None

\* C8 (as claimed): a request with exactly one criterion present and all the
\* others absent is accepted by the validation.
C8_AnySingleCriterionAccepted ==
    \A f \in CriterionFields :
        (apc # "validate" /\ OnlyCriterion(data, f)) => args.set

\* C8 (amended): a request whose only key is supplied (non-blank for secteur,
\* non-empty and non-zero for the others) is accepted exactly when the key is
\* one of the nine the validation reads; the request with no key is rejected.
Supplied(f, v) == IF f = "secteur" THEN v.k = "str" /\ Strip(v.s) # <<>> ELSE Truthy(v)
ValidatedNine ==
    {"secteur", "region", "departement", "ca_min", "ca_max", "ville", "nom_entreprise",
     "nom_dirigeant", "prenom_dirigeant"}
Rejected == apc = "done" /\ response = [status |-> 400, kind |-> "error"] /\ ~args.set
C8_SingleValidatedFieldAccepted ==
    apc # "validate" =>
        /\ data = EmptyRequest => Rejected
        /\ \A f \in Fields :
              (Supplied(f, data[f]) /\ \A g \in Fields \ {f} : data[g] = None) =>
                  IF f \in ValidatedNine THEN args.set ELSE Rejected

\* C8 witness: a request whose only supplied field is ville has passed the
\* validation and its search has started.
C8_Witness ==
    /\ apc = "search" /\ args.set
    /\ data = [EmptyRequest EXCEPT !["ville"] = Str(<<"x">>)]

\* C9 (as claimed, search half): no page request is issued unless a criterion
\* is present in the arguments the search uses. The criteria counted are all
\* those the validation reads, the company name included.
CriteriaInArgs(a) ==
    \/ a.secteur.s # <<>>
    \/ \E v \in {a.region, a.departement, a.ca_min, a.ca_max, a.ville, a.nom_entreprise,
                 a.nom_dirigeant, a.prenom_dirigeant} : v # None
C9_NoSearchWithoutCriteria ==
    (apc \in {"search", "done"} /\ requests # <<>>) => CriteriaInArgs(args)

(***************************************************************************)
(* api_fullenrich_enrich and _do_fullenrich_enrich: src/app.py:311-420     *)
(***************************************************************************)
\* FULLENRICH_POLL_MAX, src/recherche_entreprises.py:103
FULLENRICH_POLL_MAX == 40
\* A request carries up to MaxContacts contacts.
MaxContacts == 2

\* A record of the FINISHED payload: the three contact_info entries the code
\* reads, "" where the entry (or contact_info itself) is missing or null.
ContactRecord(w, p, t) == [work |-> w, personal |-> p, phone |-> t]
ContactRecords ==
    {ContactRecord("", "", ""), ContactRecord("w@x", "p@x", "+33"),
     ContactRecord("", "p@x", ""), ContactRecord("", "", "+33")}

RECURSIVE SeqsUpTo(_, _)
SeqsUpTo(S, n) ==
    IF n = 0 THEN {<<>>}
    ELSE LET R == SeqsUpTo(S, n - 1)
         IN  R \cup {Append(q, x) : q \in {r \in R : Len(r) = n - 1}, x \in S}

\* The statuses a 200 poll reply may carry ("UNKNOWN" is what the code reads
\* when the key is missing); the remote's spelling may be lower case.
PollStatuses ==
    {"IN_PROGRESS", "UNKNOWN", "FINISHED", "finished", "CANCELED", "canceled",
     "CREDITS_INSUFFICIENT", "RATE_LIMIT"}

\* status.upper(), on the statuses above
Upper(st) ==
    CASE st = "finished" -> "FINISHED"
      [] st = "canceled" -> "CANCELED"
      [] OTHER -> st

\* What the remote may answer to a poll: no answer (code 0, a network error),
\* 402, another 4xx, a 5xx, or 200 with a status and, when FINISHED, a data
\* list whose length is the remote's choice, and a credit count.
PollReply(c, st, d, cr) == [code |-> c, status |-> st, data |-> d, credits |-> cr]
PollReplies ==
    {PollReply(c, "", <<>>, 0) : c \in {0, 402, 404, 429, 500}}
    \cup {PollReply(200, st, <<>>, 0) : st \in PollStatuses \ {"FINISHED", "finished"}}
    \cup {PollReply(200, st, d, Len(d)) :
            st \in {"FINISHED", "finished"}, d \in SeqsUpTo(ContactRecords, MaxContacts + 1)}

\* What the remote may answer to the bulk submission.
SubmitReplies == {"network_error", "http_error", "no_id", "ok"}

\* Lines 404-409: work email, else personal email, else ""; the phone number.
BestEmail(r) == IF r.work # "" THEN r.work ELSE IF r.personal # "" THEN r.personal ELSE ""

\* Lines 401-410: one entry per record of the payload, indexed from 0.
EnrichedOf_from1(d) ==
    [i \in 1..Len(d) |-> [index |-> i, email |-> BestEmail(d[i]), mobile |-> d[i].phone]]
EnrichedOf(d) ==
    [i \in 1..Len(d) |-> [index |-> i - 1, email |-> BestEmail(d[i]), mobile |-> d[i].phone]]

\* Line 417: the statuses that end the enrichment with a ValueError.
FailStatuses_noRateLimit == {"CANCELED", "CREDITS_INSUFFICIENT"}
FailStatuses == {"CANCELED", "CREDITS_INSUFFICIENT", "RATE_LIMIT"}

\* Line 384: for _ in range(FULLENRICH_POLL_MAX)
PollAttempts_oneMore == FULLENRICH_POLL_MAX + 1
PollAttempts == FULLENRICH_POLL_MAX

\* An exception: its class, what its message names, and the status code in it.
Exc(type, cause, code) == [type |-> type, cause |-> cause, code |-> code]

\* Lines 313-326: no contacts is answered 400 before anything is sent.
ApiEnrichStart ==
    /\ epc = "start"
    /\ IF contacts = 0
       THEN eresponse' = [status |-> 400, kind |-> "error"] /\ epc' = "done"
       ELSE epc' = "submit" /\ UNCHANGED eresponse
    /\ UNCHANGED <<contacts, submitted, polls, nonTerminal, lastPoll, enrich_result, raised>>
    /\ UNCHANGED <<searchVars, apiVars, leadVars, filterVars, extVars>>

\* Lines 345-381: the payload, the POST and the enrichment identifier.
EnrichSubmit ==
    /\ epc = "submit"
    /\ submitted' = submitted + 1
    /\ \E reply \in SubmitReplies :
        CASE reply = "network_error" ->
                raised' = Append(raised, Exc("RequestException", "network", 0)) /\ epc' = "ended"
          [] reply = "http_error" ->
                raised' = Append(raised, Exc("HTTPError", "http", 0)) /\ epc' = "ended"
          [] reply = "no_id" ->
                raised' = Append(raised, Exc("ValueError", "no_id", 0)) /\ epc' = "ended"
          [] OTHER -> epc' = "poll" /\ UNCHANGED raised
    /\ UNCHANGED <<contacts, polls, nonTerminal, lastPoll, enrich_result, eresponse>>
    /\ UNCHANGED <<searchVars, apiVars, leadVars, filterVars, extVars>>

\* The reply is a 200 whose status neither finishes nor fails the job.
NonTerminalReply(r) ==
    r.code = 200 /\ Upper(r.status) \notin {"FINISHED", "CANCELED", "CREDITS_INSUFFICIENT", "RATE_LIMIT"}

\* Lines 384-420: one iteration of the polling loop, and the TimeoutError
\* that follows the last one.
EnrichPollOn(reply) ==
    /\ polls' = polls + 1
    /\ lastPoll' = reply
    /\ nonTerminal' = IF NonTerminalReply(reply) THEN nonTerminal + 1 ELSE nonTerminal
    /\ CASE reply.code = 0 ->
                /\ raised' = Append(raised, Exc("RequestException", "network", 0))
                /\ epc' = "ended" /\ UNCHANGED enrich_result
         [] reply.code = 402 ->
                /\ raised' = Append(raised, Exc("ValueError", "credits", 402))
                /\ epc' = "ended" /\ UNCHANGED enrich_result
         [] reply.code >= 400 /\ reply.code < 500 /\ reply.code # 402 ->
                /\ raised' = Append(raised, Exc("ValueError", "client_error", reply.code))
                /\ epc' = "ended" /\ UNCHANGED enrich_result
         [] reply.code >= 500 ->
                /\ raised' = Append(raised, Exc("HTTPError", "http", reply.code))
                /\ epc' = "ended" /\ UNCHANGED enrich_result
         [] OTHER ->
                IF Upper(reply.status) = "FINISHED"
                THEN /\ enrich_result' = [enriched |-> EnrichedOf(reply.data),
                                          credits_used |-> reply.credits,
                                          total_submitted |-> contacts,
                                          set |-> TRUE]
                     /\ epc' = "ended" /\ UNCHANGED raised
                ELSE IF Upper(reply.status) \in FailStatuses
                THEN /\ raised' = Append(raised, Exc("ValueError", Upper(reply.status), 0))
                     /\ epc' = "ended" /\ UNCHANGED enrich_result
                ELSE IF polls' = PollAttempts
                THEN /\ raised' = Append(raised, Exc("TimeoutError", "timeout", 0))
                     /\ epc' = "ended" /\ UNCHANGED enrich_result
                ELSE UNCHANGED <<epc, raised, enrich_result>>
    /\ UNCHANGED <<contacts, submitted, eresponse>>

EnrichPoll ==
    /\ epc = "poll"
    /\ polls < PollAttempts
    /\ \E reply \in PollReplies : EnrichPollOn(reply)
    /\ UNCHANGED <<searchVars, apiVars, leadVars, filterVars, extVars>>

\* Lines 325-335: the result, or the exception, as the HTTP response.
EnrichResponse(res, excs) ==
    IF excs = <<>> THEN [status |-> 200, kind |-> "result"]
    ELSE LET e == excs[Len(excs)]
         IN  CASE e.type = "ValueError"   -> [status |-> 400, kind |-> "error"]
               [] e.type = "TimeoutError" -> [status |-> 504, kind |-> "error"]
               [] OTHER                   -> [status |-> 502, kind |-> "error"]

ApiEnrichRespond ==
    /\ epc = "ended"
    /\ eresponse' = EnrichResponse(enrich_result, raised)
    /\ epc' = "done"
    /\ UNCHANGED <<contacts, submitted, polls, nonTerminal, lastPoll, enrich_result, raised>>
    /\ UNCHANGED <<searchVars, apiVars, leadVars, filterVars, extVars>>

InitEnrich ==
    /\ epc = "start" /\ contacts \in 0..MaxContacts /\ submitted = 0 /\ polls = 0
    /\ nonTerminal = 0 /\ lastPoll = NoReply /\ enrich_result = NoResult /\ raised = <<>>
    /\ eresponse = NoResponse
    /\ IdleSearch /\ IdleApi /\ IdleLeads /\ IdleFilter /\ IdleExt

NextEnrich == ApiEnrichStart \/ EnrichSubmit \/ EnrichPoll \/ ApiEnrichRespond

SpecEnrich == InitEnrich /\ [][NextEnrich]_vars

Finished(r) == r.code = 200 /\ Upper(r.status) = "FINISHED"
EnrichEnded == epc \in {"ended", "done"}

\* C4: at most FULLENRICH_POLL_MAX polls are issued and polling goes on only
\* while every poll reported a non-terminal status; when the k-th poll is the
\* first to report FINISHED after k - 1 non-terminal polls the call succeeds
\* with that payload; when FULLENRICH_POLL_MAX polls all reported non-terminal
\* statuses the call ends with a timeout failure.
C4_PollUntilTerminal ==
    /\ polls <= FULLENRICH_POLL_MAX
    /\ epc = "poll" => nonTerminal = polls /\ polls < FULLENRICH_POLL_MAX
    /\ (polls > 0 /\ Finished(lastPoll) /\ nonTerminal = polls - 1) =>
          /\ EnrichEnded /\ raised = <<>> /\ enrich_result.set
          /\ Len(enrich_result.enriched) = Len(lastPoll.data)
          /\ enrich_result.credits_used = lastPoll.credits
    /\ (polls = FULLENRICH_POLL_MAX /\ nonTerminal = FULLENRICH_POLL_MAX) =>
          /\ EnrichEnded /\ ~enrich_result.set
          /\ raised = <<Exc("TimeoutError", "timeout", 0)>>
    /\ (raised # <<>> /\ raised[Len(raised)].type = "TimeoutError") =>
          polls = FULLENRICH_POLL_MAX /\ nonTerminal = FULLENRICH_POLL_MAX

\* C4 witness: two non-terminal polls, then FINISHED: success after 3 polls.
C4_Witness ==
    /\ polls = 3 /\ nonTerminal = 2 /\ Finished(lastPoll) /\ lastPoll.data # <<>>
    /\ enrich_result.set /\ epc = "ended"

\* The poll reply is a 402, another 4xx or a 200 with a failure status, and
\* the cause the failure has to name.
HardFail(r) ==
    \/ r.code >= 400 /\ r.code < 500
    \/ r.code = 200 /\ Upper(r.status) \in {"CANCELED", "CREDITS_INSUFFICIENT", "RATE_LIMIT"}
CauseOf(r) ==
    IF r.code = 402 THEN Exc("ValueError", "credits", 402)
    ELSE IF r.code # 200 THEN Exc("ValueError", "client_error", r.code)
    ELSE Exc("ValueError", Upper(r.status), 0)

\* C5: a poll answered 402, another 4xx or a failure status ends the enrichment
\* at that poll with one failure naming the cause and no result, and no poll
\* is issued after it.
C5_HardFailureStops ==
    [][/\ HardFail(lastPoll') =>
            (EnrichEnded' /\ raised' = <<CauseOf(lastPoll')>> /\ ~enrich_result'.set)
       /\ HardFail(lastPoll) => (polls' = polls /\ lastPoll' = lastPoll)]_vars

\* C5 witness: the second poll reported RATE_LIMIT and the handler has answered.
C5_Witness ==
    /\ polls = 2 /\ lastPoll.code = 200 /\ lastPoll.status = "RATE_LIMIT" /\ epc = "done"

\* The call of _do_fullenrich_enrich was made and is over.
CallOver == EnrichEnded /\ submitted > 0

\* C6 (as claimed): the call ends in a success with one entry per submitted
\* contact, indexed 0..n-1, or in exactly one failure and no result.
C6_FullMappingOrFailure ==
    CallOver =>
        \/ /\ enrich_result.set /\ raised = <<>>
           /\ Len(enrich_result.enriched) = contacts
           /\ \A i \in 1..Len(enrich_result.enriched) : enrich_result.enriched[i].index = i - 1
        \/ ~enrich_result.set /\ Len(raised) = 1

\* C6 (amended): the call ends in a success with one entry per record of the
\* FINISHED payload, indexed from 0 in payload order, and total_submitted equal
\* to the number of contacts, or in exactly one failure and no result.
C6_PayloadMappingOrFailure ==
    CallOver =>
        \/ /\ enrich_result.set /\ raised = <<>>
           /\ Len(enrich_result.enriched) = Len(lastPoll.data)
           /\ \A i \in 1..Len(enrich_result.enriched) :
                 /\ enrich_result.enriched[i].index = i - 1
                 /\ enrich_result.enriched[i].mobile = lastPoll.data[i].phone
                 /\ enrich_result.enriched[i].email \in
                       {lastPoll.data[i].work, lastPoll.data[i].personal}
           /\ enrich_result.total_submitted = contacts
        \/ ~enrich_result.set /\ Len(raised) = 1

\* C6 witness: two contacts were submitted and the success carries one entry.
C6_Witness ==
    /\ CallOver /\ contacts = 2 /\ enrich_result.set /\ Len(enrich_result.enriched) = 1

\* C9, enrichment half (holds): a request with no contacts issues neither a
\* submission nor a poll and is answered 400.
C9_NoEnrichWithoutContacts ==
    contacts = 0 =>
        /\ submitted = 0 /\ polls = 0
        /\ epc = "done" => eresponse = [status |-> 400, kind |-> "error"]

(***************************************************************************)
(* Stored leads: api_vendeurs_create, api_vendeurs_update and              *)
(* api_vendeurs_delete, src/app.py:503-578.  Each handler runs to its end  *)
(* before the next request is taken.  A row is [id, siren, statut]; a      *)
(* siren of "" is a row stored without one.                                *)
(***************************************************************************)
\* The datastore hands out identifiers 1..MaxLeads.
MaxLeads == 3
Sirens == {"", "A", "B"}
Statuts == {"", "contacte"}

\* Line 533: select("id").eq("siren", siren)
Existing_none(table, siren) == {}
Existing(table, siren) == {r \in table : r.siren = siren}

\* Lines 553-557: the keys an update may change.
Allowed_withSiren ==
    {"statut", "notes", "email", "telephone", "raison_cession", "nom_entreprise", "ca",
     "secteur", "siren"}
Allowed ==
    {"statut", "notes", "email", "telephone", "raison_cession", "nom_entreprise", "ca",
     "secteur"}

\* Lines 505-542.  d is the body: its siren and statut ("" when missing or
\* empty); db tells whether the datastore answers; when it is not configured
\* or raises the reply is 500 and the table is unchanged.
api_vendeurs_create(d, db) ==
    LET row == [id |-> nextId, siren |-> d.siren,
                statut |-> IF d.statut = "" THEN "prospect" ELSE d.statut]
    IN  /\ lpc = "ready"
        /\ nextId <= MaxLeads
        /\ lastReq' = [op |-> "create", siren |-> d.siren]
        /\ IF ~db
           THEN lresponse' = [status |-> 500, kind |-> "error"] /\ UNCHANGED <<vendeurs, nextId>>
           ELSE IF row.siren # "" /\ Existing(vendeurs, row.siren) # {}
           THEN lresponse' = [status |-> 409, kind |-> "duplicate"] /\ UNCHANGED <<vendeurs, nextId>>
           ELSE /\ vendeurs' = vendeurs \cup {row}
                /\ nextId' = nextId + 1
                /\ lresponse' = [status |-> 201, kind |-> "vendeur"]
        /\ UNCHANGED lpc
        /\ UNCHANGED <<searchVars, apiVars, enrichVars, filterVars, extVars>>

\* Lines 547-565.  keys are the keys of the body, d their values.
api_vendeurs_update(vid, keys, d, db) ==
    LET update == keys \cap Allowed
        Patch(r) == [id |-> r.id,
                     siren |-> IF "siren" \in update THEN d.siren ELSE r.siren,
                     statut |-> IF "statut" \in update THEN d.statut ELSE r.statut]
    IN  /\ lpc = "ready"
        /\ lastReq' = [op |-> "update", siren |-> ""]
        /\ IF update = {}
           THEN lresponse' = [status |-> 400, kind |-> "error"] /\ UNCHANGED vendeurs
           ELSE IF ~db
           THEN lresponse' = [status |-> 500, kind |-> "error"] /\ UNCHANGED vendeurs
           ELSE /\ vendeurs' = {IF r.id = vid THEN Patch(r) ELSE r : r \in vendeurs}
                /\ lresponse' = [status |-> 200, kind |-> "vendeur"]
        /\ UNCHANGED <<lpc, nextId>>
        /\ UNCHANGED <<searchVars, apiVars, enrichVars, filterVars, extVars>>

\* Lines 570-578.
api_vendeurs_delete(vid, db) ==
    /\ lpc = "ready"
    /\ lastReq' = [op |-> "delete", siren |-> ""]
    /\ IF ~db
       THEN lresponse' = [status |-> 500, kind |-> "error"] /\ UNCHANGED vendeurs
       ELSE /\ vendeurs' = {r \in vendeurs : r.id # vid}
            /\ lresponse' = [status |-> 200, kind |-> "ok"]
    /\ UNCHANGED <<lpc, nextId>>
    /\ UNCHANGED <<searchVars, apiVars, enrichVars, filterVars, extVars>>

LeadBodies == [siren : Sirens, statut : Statuts]

LeadCreate == \E d \in LeadBodies, db \in BOOLEAN : api_vendeurs_create(d, db)
LeadUpdate ==
    \E vid \in 1..MaxLeads, keys \in SUBSET {"statut", "siren"}, d \in LeadBodies,
       db \in BOOLEAN : api_vendeurs_update(vid, keys, d, db)
LeadDelete == \E vid \in 1..MaxLeads, db \in BOOLEAN : api_vendeurs_delete(vid, db)

InitLeads ==
    /\ lpc = "ready" /\ vendeurs = {} /\ nextId = 1
    /\ lastReq = [op |-> "none", siren |-> ""]
    /\ lresponse = NoResponse
    /\ IdleSearch /\ IdleApi /\ IdleEnrich /\ IdleFilter /\ IdleExt

NextLeads == LeadCreate \/ LeadUpdate \/ LeadDelete

SpecLeads == InitLeads /\ [][NextLeads]_vars

NoSharedSiren ==
    \A r1 \in vendeurs, r2 \in vendeurs :
        (r1.id # r2.id /\ r1.siren # "") => r1.siren # r2.siren

\* C7: with the handlers run one at a time, no two stored leads share a
\* non-empty siren; a create whose non-empty siren is already stored inserts
\* nothing and, the datastore answering, is answered as a duplicate; and no
\* step changes the siren of a stored lead.
C7_UniqueSiren ==
    [][/\ NoSharedSiren'
       /\ (lastReq'.op = "create" /\ lastReq'.siren # ""
           /\ \E r \in vendeurs : r.siren = lastReq'.siren)
          => (vendeurs' = vendeurs /\ lresponse'.status \in {409, 500})
       /\ \A r1 \in vendeurs, r2 \in vendeurs' : r1.id = r2.id => r1.siren = r2.siren]_vars

\* C7 witness: two leads with different sirens are stored and a create
\* carrying the siren of one of them has just been rejected as a duplicate.
C7_Witness ==
    /\ lastReq.op = "create" /\ lastReq.siren = "A" /\ lresponse.status = 409
    /\ \E r1 \in vendeurs, r2 \in vendeurs : r1.siren = "A" /\ r2.siren = "B"

(***************************************************************************)
(* _filter_effectif: src/app.py:132-151                                    *)
(***************************************************************************)
\* The list holds up to MaxCompanies records.
MaxCompanies == 3

\* The _effectifs_finances a record may carry: None, a count, a numeric
\* string, a string that is no number.
EffectifValues ==
    {None, Num(5), Num(10), Num(30), Num(51), Str(<<"3", "0">>), Str(<<"a">>)}
FilterRecords == [_effectifs_finances : EffectifValues]
FilterBounds == {None, Num(0), Num(10), Num(50)}

\* Lines 138-150: whether the loop appends the record.
Keeps_strict(c, min_val, max_val) ==
    LET val == c._effectifs_finances
    IN  IF val = None THEN TRUE
        ELSE IF ~PyInt(val).ok THEN TRUE
        ELSE ~(min_val # None /\ PyInt(val).v <= min_val.n)
             /\ ~(max_val # None /\ PyInt(val).v > max_val.n)
Keeps(c, min_val, max_val) ==
    LET val == c._effectifs_finances
    IN  IF val = None THEN TRUE
        ELSE IF ~PyInt(val).ok THEN TRUE
        ELSE ~(min_val # None /\ PyInt(val).v < min_val.n)
             /\ ~(max_val # None /\ PyInt(val).v > max_val.n)

\* Lines 136-151: the loop over companies.
RECURSIVE FilterLoop(_, _, _)
FilterLoop(cs, min_val, max_val) ==
    IF cs = <<>> THEN <<>>
    ELSE (IF Keeps(Head(cs), min_val, max_val) THEN <<Head(cs)>> ELSE <<>>)
         \o FilterLoop(Tail(cs), min_val, max_val)

\* Lines 132-151.
_filter_effectif(cs, min_val, max_val) ==
    IF min_val = None /\ max_val = None THEN cs ELSE FilterLoop(cs, min_val, max_val)

FilterCall ==
    /\ fpc = "call"
    /\ f_result' = _filter_effectif(f_companies, f_min, f_max)
    /\ fpc' = "returned"
    /\ UNCHANGED <<f_companies, f_min, f_max>>
    /\ UNCHANGED <<searchVars, apiVars, enrichVars, leadVars, extVars>>

InitFilter ==
    /\ fpc = "call" /\ f_companies \in SeqsUpTo(FilterRecords, MaxCompanies)
    /\ f_min \in FilterBounds /\ f_max \in FilterBounds /\ f_result = <<>>
    /\ IdleSearch /\ IdleApi /\ IdleEnrich /\ IdleLeads /\ IdleExt

NextFilter == FilterCall

SpecFilter == InitFilter /\ [][NextFilter]_vars

\* The precise count of a record is known, and lies within the bounds.
CountKnown(c) == PyInt(c._effectifs_finances).ok
WithinBounds(c, lo, hi) ==
    /\ lo # None => PyInt(c._effectifs_finances).v >= lo.n
    /\ hi # None => PyInt(c._effectifs_finances).v <= hi.n

\* C10: the filter returns, in their original order, exactly the records whose
\* count is unknown or lies within the bounds; with both bounds absent the list
\* is returned unchanged.
C10_FilterEffectif ==
    fpc = "returned" =>
        LET Passes(c) == ~CountKnown(c) \/ WithinBounds(c, f_min, f_max)
        IN  /\ f_result = SelectSeq(f_companies, Passes)
            /\ (f_min = None /\ f_max = None) => f_result = f_companies

\* C10 witness: with min 10 and max 50, of an unknown count, 5 and 30 the
\* first and the last are returned.
C10_Witness ==
    /\ fpc = "returned" /\ f_min = Num(10) /\ f_max = Num(50)
    /\ f_companies = <<[_effectifs_finances |-> None], [_effectifs_finances |-> Num(5)],
                       [_effectifs_finances |-> Num(30)]>>
    /\ f_result = <<[_effectifs_finances |-> None], [_effectifs_finances |-> Num(30)]>>

(***************************************************************************)
(* JSON values that nest, and the text operations of the extraction.       *)
(* A list is List(xs) with xs a sequence of values; a dict is Dict(f) with *)
(* f a function from keys to values.  A character outside ASCII is written *)
(* by its name ("e_acute"), since a string of the model is a sequence of   *)
(* characters.                                                             *)
(***************************************************************************)
List(xs) == [k |-> "list", n |-> 0, s |-> xs]
Dict(f)  == [k |-> "dict", n |-> 0, s |-> f]
EmptyDict == Dict([key \in {} |-> None])
EmptyStr == Str(<<>>)

IsDict(v) == v.k = "dict"
IsList(v) == v.k = "list"
IsStr(v) == v.k = "str"

\* bool(v) for every kind of value: an empty list and an empty dict are falsy.
PyTruthy(v) ==
    CASE v.k = "list" -> Len(v.s) > 0
      [] v.k = "dict" -> DOMAIN v.s # {}
      [] OTHER        -> Truthy(v)

\* d.get(key, default) and d.get(key)
Get(d, key, default) == IF key \in DOMAIN d.s THEN d.s[key] ELSE default
GetNone(d, key) == Get(d, key, None)

\* a or b
Or(a, b) == IF PyTruthy(a) THEN a ELSE b

UpperLetters ==
    <<"A", "B", "C", "D", "E", "F", "G", "H", "I", "J", "K", "L", "M", "N", "O", "P", "Q",
      "R", "S", "T", "U", "V", "W", "X", "Y", "Z">>
LowerLetters ==
    <<"a", "b", "c", "d", "e", "f", "g", "h", "i", "j", "k", "l", "m", "n", "o", "p", "q",
      "r", "s", "t", "u", "v", "w", "x", "y", "z">>

\* str.lower() and str.upper()
LowerChar(c) ==
    IF \E i \in 1..26 : UpperLetters[i] = c
    THEN LowerLetters[CHOOSE i \in 1..26 : UpperLetters[i] = c]
    ELSE CASE c = "E_acute" -> "e_acute" [] c = "O_circ" -> "o_circ" [] OTHER -> c
UpperChar(c) ==
    IF \E i \in 1..26 : LowerLetters[i] = c
    THEN UpperLetters[CHOOSE i \in 1..26 : LowerLetters[i] = c]
    ELSE CASE c = "e_acute" -> "E_acute" [] c = "o_circ" -> "O_circ" [] OTHER -> c
Lower(cs) == [i \in 1..Len(cs) |-> LowerChar(cs[i])]
UpperStr(cs) == [i \in 1..Len(cs) |-> UpperChar(cs[i])]

\* unicodedata.normalize("NFD", s).encode("ascii", "ignore").decode(): an
\* accented letter keeps its base letter, any other character outside ASCII
\* is dropped.
AsciiFoldChar(c) ==
    CASE c \in {"e_acute", "e_grave", "e_circ"} -> <<"e">>
      [] c = "E_acute" -> <<"E">>
      [] c = "o_circ"  -> <<"o">>
      [] c = "O_circ"  -> <<"O">>
      [] c = "c_cedil" -> <<"c">>
      [] c = "oe_lig"  -> <<>>
      [] OTHER         -> <<c>>
RECURSIVE AsciiFold(_)
AsciiFold(cs) == IF cs = <<>> THEN <<>> ELSE AsciiFoldChar(Head(cs)) \o AsciiFold(Tail(cs))

\* str.strip(chars)
RECURSIVE LStripSet(_, _)
LStripSet(cs, S) == IF cs # <<>> /\ Head(cs) \in S THEN LStripSet(Tail(cs), S) ELSE cs
RECURSIVE RStripSet(_, _)
RStripSet(cs, S) ==
    IF cs # <<>> /\ cs[Len(cs)] \in S THEN RStripSet(SubSeq(cs, 1, Len(cs) - 1), S) ELSE cs
StripSet(cs, S) == RStripSet(LStripSet(cs, S), S)

\* sep.join(parts)
RECURSIVE Join(_, _)
Join(parts, sep) ==
    IF parts = <<>> THEN <<>>
    ELSE IF Len(parts) = 1 THEN parts[1]
    ELSE parts[1] \o sep \o Join(Tail(parts), sep)

\* filter(None, parts), on strings
NonEmpty(cs) == cs # <<>>
FilterNone(parts) == SelectSeq(parts, NonEmpty)

\* str(v)
DigitChar(d) == CHOOSE c \in Digits : DigitVal(c) = d
RECURSIVE NatToChars(_)
NatToChars(i) == IF i < 10 THEN <<DigitChar(i)>> ELSE NatToChars(i \div 10) \o <<DigitChar(i % 10)>>
StrOf(v) ==
    CASE v.k = "str"  -> v.s
      [] v.k = "int"  -> IF v.n < 0 THEN <<"-">> \o NatToChars(0 - v.n) ELSE NatToChars(v.n)
      [] v.k = "none" -> <<"N", "o", "n", "e">>
      [] v.k = "bool" -> IF v.n = 1 THEN <<"T", "r", "u", "e">> ELSE <<"F", "a", "l", "s", "e">>
      [] v.k = "list" -> IF Len(v.s) = 0 THEN <<"[", "]">> ELSE <<"[", "...", "]">>
      [] OTHER        -> IF DOMAIN v.s = {} THEN <<"{", "}">> ELSE <<"{", "...", "}">>

\* s.split(sep)[0] and s.split(sep)[-1]
RECURSIVE SplitFirst(_, _)
SplitFirst(cs, sep) ==
    IF cs = <<>> \/ Head(cs) = sep THEN <<>> ELSE <<Head(cs)>> \o SplitFirst(Tail(cs), sep)
RECURSIVE SplitLast(_, _)
SplitLast(cs, sep) ==
    IF cs = <<>> \/ cs[Len(cs)] = sep THEN <<>>
    ELSE SplitLast(SubSeq(cs, 1, Len(cs) - 1), sep) \o <<cs[Len(cs)]>>

\* _slugify, src/recherche_entreprises.py:57-62
IsSlugChar(c) == c \in Digits \/ \E i \in 1..26 : LowerLetters[i] = c
RECURSIVE SlugSub(_, _)
SlugSub(cs, inRun) ==
    IF cs = <<>> THEN <<>>
    ELSE IF IsSlugChar(Head(cs)) THEN <<Head(cs)>> \o SlugSub(Tail(cs), FALSE)
    ELSE (IF inRun THEN <<>> ELSE <<"-">>) \o SlugSub(Tail(cs), TRUE)
_slugify(cs) == StripSet(SlugSub(Lower(AsciiFold(cs)), FALSE), {"-"})

(***************************************************************************)
(* extract_company_info: src/recherche_entreprises.py:299-424              *)
(***************************************************************************)
\* datetime.now().year, line 393
CurrentYear == 2026

\* Line 305: company.get("nom_entreprise") or company.get("denomination", "")
NomOf(company) == Or(GetNone(company, "nom_entreprise"), Get(company, "denomination", EmptyStr))

\* Line 308: details.get("siege") or company.get("siege") or {}
SiegeOf(company, details) ==
    Or(Or(GetNone(details, "siege"), GetNone(company, "siege")), EmptyDict)

\* Lines 309-320: the one-line address.
AdresseFields == <<"numero_voie", "indice_repetition", "type_voie", "libelle_voie">>
AdresseOf(siege) ==
    LET Present(f) == PyTruthy(GetNone(siege, f))
        present == SelectSeq(AdresseFields, Present)
        parts == [i \in 1..Len(present) |-> Strip(StrOf(Get(siege, present[i], EmptyStr)))]
        complement == Get(siege, "complement_adresse", EmptyStr)
        adresse_ligne ==
            IF PyTruthy(complement)
            THEN StripSet(StrOf(complement) \o <<",", " ">> \o Join(parts, <<" ">>), {",", " "})
            ELSE Join(parts, <<" ">>)
        cp_ville == Strip(StrOf(Get(siege, "code_postal", EmptyStr)) \o <<" ">>
                          \o StrOf(Get(siege, "ville", EmptyStr)))
    IN  Join(FilterNone(<<adresse_ligne, cp_ville>>), <<",", " ">>)

\* (details.get("finances") or [{}])[0], and when evaluating it raises: the
\* value is truthy and no list, or its first entry is no dict.
FirstFinance(details) == Or(GetNone(details, "finances"), List(<<EmptyDict>>)).s[1]
FinanceRaises(details) ==
    LET f == GetNone(details, "finances")
    IN  PyTruthy(f) /\ ~(IsList(f) /\ IsDict(f.s[1]))
FinanceGet(details, key) == GetNone(FirstFinance(details), key)

\* Lines 325-329
ChiffreAffairesOf(company, details) ==
    Or(Or(GetNone(company, "chiffre_affaires"), FinanceGet(details, "chiffre_affaires")),
       EmptyStr)

\* Lines 333-341
EffectifOf(company, details) ==
    LET head == Or(Or(GetNone(company, "effectifs_finances"), GetNone(details, "effectif")),
                   GetNone(company, "effectif"))
    IN  IF PyTruthy(head) THEN head
        ELSE Or(Or(Or(FinanceGet(details, "effectif"), GetNone(details, "tranche_effectif")),
                   GetNone(company, "tranche_effectif")), EmptyStr)

\* Lines 420-423
EffectifsFinancesOf(company, details) ==
    Or(GetNone(company, "effectifs_finances"), FinanceGet(details, "effectif"))

\* The three expressions above read the first finance entry only when what
\* precedes it in their "or" chain is falsy.
FinanceRead(company, details) ==
    \/ ~PyTruthy(GetNone(company, "chiffre_affaires"))
    \/ ~PyTruthy(Or(Or(GetNone(company, "effectifs_finances"), GetNone(details, "effectif")),
                   GetNone(company, "effectif")))
    \/ ~PyTruthy(GetNone(company, "effectifs_finances"))

\* Lines 344-349
SiteWebOf(company, details) ==
    Or(Or(Or(GetNone(details, "domaine_url"), GetNone(company, "domaine_url")),
          GetNone(SiegeOf(company, details), "domaine_url")), EmptyStr)

\* Lines 354-359
DirigeantsOf_searchFirst(company, details) ==
    Or(Or(Or(GetNone(company, "dirigeants"), GetNone(details, "representants")),
          GetNone(details, "dirigeants")), List(<<>>))
DirigeantsOf(company, details) ==
    Or(Or(Or(GetNone(details, "representants"), GetNone(details, "dirigeants")),
          GetNone(company, "dirigeants")), List(<<>>))

\* Lines 361-365: the loop stops at the first entry on which
\* d.get("personne_morale", False) is falsy; on an entry that is no dict the
\* call of d.get raises.
LoopStops(ds, i) ==
    ~IsDict(ds[i]) \/ ~PyTruthy(Get(ds[i], "personne_morale", Bool(FALSE)))
LoopEnd(ds) ==
    IF \E i \in 1..Len(ds) : LoopStops(ds, i)
    THEN CHOOSE i \in 1..Len(ds) : LoopStops(ds, i) /\ \A j \in 1..(i - 1) : ~LoopStops(ds, j)
    ELSE 0
DirigeantsRaise(dirigeants) ==
    PyTruthy(dirigeants) /\
        (~IsList(dirigeants)
         \/ (LoopEnd(dirigeants.s) # 0 /\ ~IsDict(dirigeants.s[LoopEnd(dirigeants.s)])))

\* Lines 360-367: the entry the loop stopped at, else the first entry.
DirigeantOf(dirigeants) ==
    LET ds == dirigeants.s
        found == IF LoopEnd(ds) = 0 THEN EmptyDict ELSE ds[LoopEnd(ds)]
    IN  IF ~PyTruthy(found) /\ Len(ds) > 0 THEN ds[1] ELSE found

\* Lines 375-378: .strip() on a value that is no str raises.
NameKeys == {"prenom", "nom", "nom_complet"}
NamesRaise(dirigeant) ==
    PyTruthy(dirigeant) /\ \E key \in NameKeys : ~IsStr(Get(dirigeant, key, EmptyStr))

\* Lines 380-395: the age given, else the current year less the birth year
\* read from the date of birth, else what "age" held.
AgeOf(dirigeant) ==
    LET age == Get(dirigeant, "age", EmptyStr)
        dob == Or(Get(dirigeant, "date_de_naissance", EmptyStr),
                  Get(dirigeant, "date_de_naissance_formate", EmptyStr))
        text == StrOf(dob)
        year == IF \E i \in 1..Len(text) : text[i] = "-"
                THEN SplitFirst(text, "-") ELSE SplitLast(text, "/")
        birth_year == PyInt(Str(year))
    IN  IF PyTruthy(age) THEN age
        ELSE IF PyTruthy(dob) /\ birth_year.ok THEN Num(CurrentYear - birth_year.v)
        ELSE age

\* Every place where extract_company_info raises.
ExtractRaises(company, details) ==
    \/ ~IsDict(company) \/ ~IsDict(details)
    \/ ~IsDict(SiegeOf(company, details))
    \/ FinanceRaises(details) /\ FinanceRead(company, details)
    \/ DirigeantsRaise(DirigeantsOf(company, details))
    \/ NamesRaise(DirigeantOf(DirigeantsOf(company, details)))
    \/ PyTruthy(NomOf(company)) /\ ~IsStr(NomOf(company))

\* The dict returned (lines 403-424).
ExtractRecord(company, details) ==
    LET siren == Get(company, "siren", EmptyStr)
        nom == NomOf(company)
        dirigeant == DirigeantOf(DirigeantsOf(company, details))
        has == PyTruthy(dirigeant)
        prenom_dir == IF has THEN Strip(Get(dirigeant, "prenom", EmptyStr).s) ELSE <<>>
        nom_dir == IF has THEN Strip(Get(dirigeant, "nom", EmptyStr).s) ELSE <<>>
        nom_complet == IF has THEN Strip(Get(dirigeant, "nom_complet", EmptyStr).s) ELSE <<>>
        nom_dirigeant == IF nom_complet # <<>> THEN nom_complet
                         ELSE Join(FilterNone(<<prenom_dir, nom_dir>>), <<" ">>)
        slug == IF PyTruthy(nom) THEN _slugify(nom.s) ELSE <<>>
        pappers_url == IF PyTruthy(siren) /\ slug # <<>>
                       THEN <<"https://www.pappers.fr/entreprise/">> \o slug \o <<"-">>
                            \o StrOf(siren)
                       ELSE <<>>
    IN  [nom_entreprise |-> nom,
         siren |-> siren,
         chiffre_affaires |-> ChiffreAffairesOf(company, details),
         effectif |-> EffectifOf(company, details),
         adresse |-> Str(AdresseOf(SiegeOf(company, details))),
         site_web |-> SiteWebOf(company, details),
         nom_dirigeant |-> Str(nom_dirigeant),
         age_dirigeant |-> IF has THEN AgeOf(dirigeant) ELSE EmptyStr,
         email_dirigeant |-> EmptyStr,
         mobile_dirigeant |-> EmptyStr,
         pappers_url |-> Str(pappers_url),
         _prenom |-> Str(prenom_dir),
         _nom |-> Str(nom_dir),
         _domaine |-> SiteWebOf(company, details),
         _nom_entreprise_raw |-> nom,
         _effectifs_finances |-> EffectifsFinancesOf(company, details)]

\* extract_company_info(company, details): ok is FALSE where the call raises.
NoExtract == [nom_entreprise |-> None]
extract_company_info(company, details) ==
    IF ExtractRaises(company, details) THEN [ok |-> FALSE, v |-> NoExtract]
    ELSE [ok |-> TRUE, v |-> ExtractRecord(company, details)]

(***************************************************************************)
(* The orchestration of api_search after the search: src/app.py:230-258.   *)
(* get_company_details: src/recherche_entreprises.py:282-293.              *)
(***************************************************************************)
\* The search returned up to MaxHits hits.
MaxHits == 2

\* A dict built from a record of options: a key whose option is Absent is
\* not in the dict.
Absent == [k |-> "absent", n |-> 0, s |-> <<>>]
MkDict(r) == Dict([key \in {x \in DOMAIN r : r[x] # Absent} |-> r[key]])

\* Executives as the registry lists them: a natural person, a natural person
\* with a date of birth, and a legal entity, whose first name is null.
Jean == Dict([prenom |-> Str(<<"J">>), nom |-> Str(<<"D">>)])
Anne == Dict([prenom |-> Str(<<"A">>), nom |-> Str(<<"B">>), nom_complet |-> Str(<<"A", " ", "B">>),
              date_de_naissance |-> Str(<<"1", "9", "6", "0", "-", "0", "5">>)])
Holding == Dict([personne_morale |-> Bool(TRUE), denomination |-> Str(<<"H">>),
                 prenom |-> None, nom |-> None])

\* The name of the hit at position i, and the hits the search may return
\* there: without identifier, with an empty one, with an identifier, with a
\* precise workforce and a net income.
HitName(i) == Str(<<"N", DigitChar(i)>>)
HitsAt(i) ==
    {MkDict([nom_entreprise |-> HitName(i), siren |-> s, effectifs_finances |-> e,
             resultat |-> r]) :
        <<s, e, r>> \in {<<Absent, Absent, Absent>>, <<EmptyStr, Absent, Absent>>,
                         <<Str(<<"1", "2">>), Absent, Absent>>,
                         <<Str(<<"1", "2">>), Num(42), Num(0 - 5)>>}}
RECURSIVE HitLists(_)
HitLists(n) ==
    IF n = 0 THEN {<<>>}
    ELSE LET R == HitLists(n - 1)
         IN  R \cup {Append(q, h) : q \in {r \in R : Len(r) = n - 1}, h \in HitsAt(n)}

\* What the registry may answer to a detail request: a network error, a
\* non-2xx status, or a 2xx body.
DetailBodies ==
    {EmptyDict,
     Dict([finances |-> List(<<Dict([resultat |-> Num(50), effectif |-> Num(7)])>>)]),
     Dict([finances |-> List(<<Dict([resultat |-> Num(0 - 100)])>>),
           representants |-> List(<<Jean>>)]),
     Dict([representants |-> List(<<Holding>>)])}
DetailReplies ==
    {[kind |-> "network_error", body |-> EmptyDict], [kind |-> "http_error", body |-> EmptyDict]}
    \cup {[kind |-> "ok", body |-> b] : b \in DetailBodies}

\* get_company_details: the body of a 2xx reply, {} on a RequestException.
get_company_details(reply) == IF reply.kind = "ok" THEN reply.body ELSE EmptyDict

\* Lines 159-172 of app.py: whether the loop of _filter_resultat_net appends c.
KeepsNet(c, min_val, max_val) ==
    LET val == IF "_resultat_net" \in DOMAIN c THEN c["_resultat_net"] ELSE None
    IN  IF val = None THEN TRUE
        ELSE IF ~PyInt(val).ok THEN TRUE
        ELSE ~(min_val # None /\ PyInt(val).v < min_val.n)
             /\ ~(max_val # None /\ PyInt(val).v > max_val.n)

RECURSIVE FilterNetLoop(_, _, _)
FilterNetLoop(cs, min_val, max_val) ==
    IF cs = <<>> THEN <<>>
    ELSE (IF KeepsNet(Head(cs), min_val, max_val) THEN <<Head(cs)>> ELSE <<>>)
         \o FilterNetLoop(Tail(cs), min_val, max_val)

\* _filter_resultat_net, src/app.py:154-173
_filter_resultat_net(cs, min_val, max_val) ==
    IF min_val = None /\ max_val = None THEN cs ELSE FilterNetLoop(cs, min_val, max_val)

\* Lines 245-256: the keys that start with "_" are dropped, and _enrich is
\* added when the executive has a first or a last name.
InternalKeys == {"_prenom", "_nom", "_domaine", "_nom_entreprise_raw", "_effectifs_finances"}
CleanRow(c) ==
    LET enrich == PyTruthy(c._prenom) \/ PyTruthy(c._nom)
        keys == (DOMAIN c \ InternalKeys) \cup (IF enrich THEN {"_enrich"} ELSE {})
    IN  [key \in keys |->
            IF key = "_enrich"
            THEN Dict([prenom |-> c._prenom, nom |-> c._nom, domain |-> c._domaine,
                       company_name |-> c._nom_entreprise_raw])
            ELSE c[key]]

\* The post-filter bounds of the request (args.effectif_min, ...).
OrchArgs ==
    {[effectif_min |-> e, effectif_max |-> None, resultat_net_min |-> lo,
      resultat_net_max |-> hi] :
        e \in {None, Num(10)}, <<lo, hi>> \in {<<None, None>>, <<Num(0), Num(60)>>}}

\* Lines 232-238: one iteration of the detail loop: the fetch, if the hit has
\* an identifier, and the extraction.  An exception of the extraction is not
\* caught by api_search: the request ends with a 500.
OrchHit ==
    /\ opc = "details"
    /\ Len(details_used) < Len(companies_raw)
    /\ LET i == Len(details_used) + 1
           company == companies_raw[i]
           siren == Get(company, "siren", EmptyStr)
       IN  \E reply \in DetailReplies :
            LET details == IF PyTruthy(siren) THEN get_company_details(reply) ELSE EmptyDict
                info == extract_company_info(company, details)
            IN  /\ PyTruthy(siren) \/ reply.kind = "network_error"
                /\ fetches' = IF PyTruthy(siren)
                              THEN Append(fetches, [hit |-> i, kind |-> reply.kind])
                              ELSE fetches
                /\ details_used' = Append(details_used, details)
                /\ IF info.ok
                   THEN /\ companies_info' = Append(companies_info, info.v)
                        /\ UNCHANGED <<opc, oresponse>>
                   ELSE /\ opc' = "raised"
                        /\ oresponse' = [status |-> 500, kind |-> "error"]
                        /\ UNCHANGED companies_info
    /\ UNCHANGED <<companies_raw, o_args, clean>>
    /\ UNCHANGED exceptOrch

\* Lines 241-258: the two filters, the cleaning and the response.
OrchRespond ==
    /\ opc = "details"
    /\ Len(details_used) = Len(companies_raw)
    /\ LET by_effectif == _filter_effectif(companies_info, o_args.effectif_min,
                                           o_args.effectif_max)
           by_net == _filter_resultat_net(by_effectif, o_args.resultat_net_min,
                                          o_args.resultat_net_max)
       IN  clean' = [j \in 1..Len(by_net) |-> CleanRow(by_net[j])]
    /\ oresponse' = [status |-> 200, kind |-> "results"]
    /\ opc' = "done"
    /\ UNCHANGED <<companies_raw, o_args, fetches, details_used, companies_info>>
    /\ UNCHANGED exceptOrch

InitOrch ==
    /\ opc = "details" /\ companies_raw \in HitLists(MaxHits) /\ o_args \in OrchArgs
    /\ fetches = <<>> /\ details_used = <<>> /\ companies_info = <<>> /\ clean = <<>>
    /\ oresponse = NoResponse
    /\ IdleSearch /\ IdleApi /\ IdleEnrich /\ IdleLeads /\ IdleFilter /\ IdleExceptOrch

NextOrch == OrchHit \/ OrchRespond

SpecOrch == InitOrch /\ [][NextOrch]_vars

\* The net income the registry reported for a hit: the search record's
\* "resultat", else that of the first finance entry of its detail record.
RegistryNetIncome(company, details) ==
    Or(GetNone(company, "resultat"), FinanceGet(details, "resultat"))
InOutput(i) == \E j \in 1..Len(clean) : clean[j].nom_entreprise = HitName(i)
OutsideRange(v, lo, hi) == (lo # None /\ v < lo.n) \/ (hi # None /\ v > hi.n)

\* C11 (as claimed): the output of the orchestration holds no record whose net
\* income is known and lies outside the requested range.
C11_NetIncomeFiltered ==
    opc = "done" =>
        \A i \in 1..Len(companies_raw) :
            LET ni == RegistryNetIncome(companies_raw[i], details_used[i])
            IN  (ni.k = "int" /\ OutsideRange(ni.n, o_args.resultat_net_min,
                                               o_args.resultat_net_max))
                    => ~InOutput(i)

\* C15 (as claimed): a detail fetch is made at most once per hit, in hit
\* order, only for a hit with a non-empty identifier; a fetch that failed gives
\* an empty detail record; the orchestration is never aborted, and it ends
\* with one extracted record per hit, in search order.
FetchesInOrder ==
    /\ \A a \in 1..Len(fetches), b \in 1..Len(fetches) :
          a < b => fetches[a].hit < fetches[b].hit
    /\ \A a \in 1..Len(fetches) :
          /\ PyTruthy(Get(companies_raw[fetches[a].hit], "siren", EmptyStr))
          /\ fetches[a].hit <= Len(details_used)
          /\ fetches[a].kind # "ok" => details_used[fetches[a].hit] = EmptyDict
C15_DetailFailureNeverAborts ==
    /\ FetchesInOrder
    /\ opc # "raised"
    /\ opc = "done" =>
          /\ Len(companies_info) = Len(companies_raw)
          /\ \A i \in 1..Len(companies_raw) :
                companies_info[i].nom_entreprise = HitName(i)

\* C15, the part that holds: the fetches are made in hit order, at most one
\* per hit and only for hits with an identifier, a failed fetch gives {} and
\* is never what aborts the orchestration.
C15_FetchDiscipline ==
    /\ FetchesInOrder
    /\ opc = "raised" => ExtractRaises(companies_raw[Len(details_used)],
                                       details_used[Len(details_used)])

(***************************************************************************)
(* extract_company_info applied to one pair of records.                    *)
(***************************************************************************)
Siege ==
    Dict([numero_voie |-> Str(<<"5">>), type_voie |-> Str(<<"r", "u", "e">>),
          libelle_voie |-> Str(<<"X">>), code_postal |-> Str(<<"3", "5">>),
          ville |-> Str(<<"R">>)])
Finance == Dict([chiffre_affaires |-> Num(900), effectif |-> Num(7), resultat |-> Num(50)])
CafeCo == Str(<<"C", "a", "f", "e_acute", " ", "&", " ", "C", "o">>)

\* The search records and the detail records of the registry: any key may
\* be missing or null.
ExtractCompanies ==
    {MkDict([siren |-> s, nom_entreprise |-> nm, denomination |-> d, chiffre_affaires |-> ca,
             effectifs_finances |-> e, dirigeants |-> ds]) :
        s \in {Absent, Str(<<"1", "2">>)}, nm \in {Absent, None, CafeCo}, d \in {Absent, None},
        ca \in {Absent, Num(1000)}, e \in {Absent, None, Num(42)},
        ds \in {Absent, List(<<Jean>>), List(<<Holding>>)}}
ExtractDetails ==
    {MkDict([finances |-> f, representants |-> r, siege |-> sg, effectif |-> ef]) :
        f \in {Absent, None, List(<<>>), List(<<Finance>>), List(<<None>>)},
        r \in {Absent, None, List(<<Holding, Anne>>), List(<<Holding>>)},
        sg \in {Absent, None, Siege}, ef \in {Absent, Str(<<"1", "0">>)}}

ExtractCall ==
    /\ xpc = "call"
    /\ x_result' = extract_company_info(x_company, x_details)
    /\ xpc' = "returned"
    /\ UNCHANGED <<x_company, x_details>>
    /\ UNCHANGED exceptExtract

InitExtract ==
    /\ xpc = "call" /\ x_company \in ExtractCompanies /\ x_details \in ExtractDetails
    /\ x_result = [ok |-> FALSE, v |-> NoExtract]
    /\ IdleSearch /\ IdleApi /\ IdleEnrich /\ IdleLeads /\ IdleFilter /\ IdleExceptExtract

NextExtract == ExtractCall

SpecExtract == InitExtract /\ [][NextExtract]_vars

\* C16 (as claimed): the call returns a record for every pair of records,
\* whichever fields are missing or null.
C16_NeverRaises == xpc = "returned" => x_result.ok

\* C16, the part that holds: from two empty records the call returns a record
\* with an empty name, an empty identifier and no numeric value.
C16_EmptyRecords ==
    (xpc = "returned" /\ x_company = EmptyDict /\ x_details = EmptyDict) =>
        /\ x_result.ok
        /\ x_result.v.nom_entreprise = EmptyStr /\ x_result.v.siren = EmptyStr
        /\ x_result.v.chiffre_affaires = EmptyStr /\ x_result.v.effectif = EmptyStr
        /\ x_result.v.age_dirigeant = EmptyStr /\ x_result.v._effectifs_finances = None

(***************************************************************************)
(* region_to_code: src/recherche_entreprises.py:28-78                      *)
(***************************************************************************)
\* REGIONS_INSEE, lines 28-49: the names and their codes, in dict order.
REGIONS_INSEE ==
    <<
      <<<<"i", "l", "e", "-", "d", "e", "-", "f", "r", "a", "n", "c", "e">>,
        <<"1", "1">>>>,
      <<<<"c", "e", "n", "t", "r", "e", "-", "v", "a", "l", " ", "d", "e", " ", "l", "o", "i", "r", "e">>,
        <<"2", "4">>>>,
      <<<<"c", "e", "n", "t", "r", "e", "-", "v", "a", "l", "-", "d", "e", "-", "l", "o", "i", "r", "e">>,
        <<"2", "4">>>>,
      <<<<"b", "o", "u", "r", "g", "o", "g", "n", "e", "-", "f", "r", "a", "n", "c", "h", "e", "-", "c", "o", "m", "t", "e">>,
        <<"2", "7">>>>,
      <<<<"b", "o", "u", "r", "g", "o", "g", "n", "e", "-", "f", "r", "a", "n", "c", "h", "e", "-", "c", "o", "m", "t", "e_acute">>,
        <<"2", "7">>>>,
      <<<<"n", "o", "r", "m", "a", "n", "d", "i", "e">>,
        <<"2", "8">>>>,
      <<<<"h", "a", "u", "t", "s", "-", "d", "e", "-", "f", "r", "a", "n", "c", "e">>,
        <<"3", "2">>>>,
      <<<<"g", "r", "a", "n", "d", " ", "e", "s", "t">>,
        <<"4", "4">>>>,
      <<<<"g", "r", "a", "n", "d", "-", "e", "s", "t">>,
        <<"4", "4">>>>,
      <<<<"p", "a", "y", "s", " ", "d", "e", " ", "l", "a", " ", "l", "o", "i", "r", "e">>,
        <<"5", "2">>>>,
      <<<<"p", "a", "y", "s", "-", "d", "e", "-", "l", "a", "-", "l", "o", "i", "r", "e">>,
        <<"5", "2">>>>,
      <<<<"b", "r", "e", "t", "a", "g", "n", "e">>,
        <<"5", "3">>>>,
      <<<<"n", "o", "u", "v", "e", "l", "l", "e", "-", "a", "q", "u", "i", "t", "a", "i", "n", "e">>,
        <<"7", "5">>>>,
      <<<<"o", "c", "c", "i", "t", "a", "n", "i", "e">>,
        <<"7", "6">>>>,
      <<<<"a", "u", "v", "e", "r", "g", "n", "e", "-", "r", "h", "o", "n", "e", "-", "a", "l", "p", "e", "s">>,
        <<"8", "4">>>>,
      <<<<"a", "u", "v", "e", "r", "g", "n", "e", "-", "r", "h", "o_circ", "n", "e", "-", "a", "l", "p", "e", "s">>,
        <<"8", "4">>>>,
      <<<<"p", "r", "o", "v", "e", "n", "c", "e", "-", "a", "l", "p", "e", "s", "-", "c", "o", "t", "e", " ", "d", "'", "a", "z", "u", "r">>,
        <<"9", "3">>>>,
      <<<<"p", "r", "o", "v", "e", "n", "c", "e", "-", "a", "l", "p", "e", "s", "-", "c", "o_circ", "t", "e", " ", "d", "'", "a", "z", "u", "r">>,
        <<"9", "3">>>>,
      <<<<"p", "a", "c", "a">>,
        <<"9", "3">>>>,
      <<<<"c", "o", "r", "s", "e">>,
        <<"9", "4">>>>
    >>

\* _normalize, lines 52-54
_normalize(cs) == Strip(Lower(AsciiFold(cs)))

\* Line 71: what is returned for an input that is only digits once stripped.
NumericResult_raw(region) == region
NumericResult(region) == Strip(region)

\* Lines 74-76: the entries whose normalized name equals the normalized input.
Matches(region) ==
    {i \in 1..Len(REGIONS_INSEE) : _normalize(REGIONS_INSEE[i][1]) = _normalize(region)}

\* region_to_code, lines 65-78
region_to_code(region) ==
    IF AllDigits(Strip(region)) THEN NumericResult(region)
    ELSE IF Matches(region) # {}
    THEN REGIONS_INSEE[CHOOSE i \in Matches(region) : \A j \in Matches(region) : i <= j][2]
    ELSE region

\* The inputs: every name of the table as written, in upper case, without
\* diacritics and between blanks, each with the entry it comes from, and
\* inputs that come from no entry: codes, blanks, other text.
Padded(cs) == <<" ">> \o cs \o <<" ">>
NameInputs ==
    UNION {{[text |-> t, from |-> i] :
                t \in {REGIONS_INSEE[i][1], UpperStr(REGIONS_INSEE[i][1]),
                       AsciiFold(REGIONS_INSEE[i][1]), Padded(REGIONS_INSEE[i][1])}} :
           i \in 1..Len(REGIONS_INSEE)}
OtherInputs ==
    {[text |-> t, from |-> 0] :
        t \in {<<>>, <<" ">>, <<"5", "3">>, <<" ", "5", "3", " ">>, <<"0", "5">>, <<"5">>,
               <<"5", "a">>, <<"x">>, <<" ", "x", " ">>, <<"b", "r", "e", "t", "a", "g", "n">>,
               <<"c", "o", "r", "s", "e", "2">>, <<"P", "a", "c", "a", "s">>}}

\* The first call, and the call on its result.
RegionApply ==
    /\ rpc = "call"
    /\ r_once' = region_to_code(r_in.text)
    /\ rpc' = "once"
    /\ UNCHANGED <<r_in, r_twice>>
    /\ UNCHANGED exceptRegion

RegionReapply ==
    /\ rpc = "once"
    /\ r_twice' = region_to_code(r_once)
    /\ rpc' = "twice"
    /\ UNCHANGED <<r_in, r_once>>
    /\ UNCHANGED exceptRegion

InitRegion ==
    /\ rpc = "call" /\ r_in \in NameInputs \cup OtherInputs /\ r_once = <<>> /\ r_twice = <<>>
    /\ IdleSearch /\ IdleApi /\ IdleEnrich /\ IdleLeads /\ IdleFilter /\ IdleExceptRegion

NextRegion == RegionApply \/ RegionReapply

SpecRegion == InitRegion /\ [][NextRegion]_vars

\* C17: region_to_code applied to its own result gives that result; an input
\* that is only digits between blanks gives those digits, a name of the table
\* in any case, with or without diacritics, gives the code of its entry, and
\* any other input is returned unchanged.
OnlyDigits(cs) == cs # <<>> /\ \A i \in 1..Len(cs) : cs[i] \in Digits
Trimmed(cs) ==
    LET keep == {i \in 1..Len(cs) : cs[i] # " "}
    IN  IF keep = {} THEN <<>>
        ELSE SubSeq(cs, CHOOSE i \in keep : \A j \in keep : i <= j,
                        CHOOSE i \in keep : \A j \in keep : i >= j)
C17_Idempotent ==
    /\ rpc \in {"once", "twice"} =>
          /\ OnlyDigits(Trimmed(r_in.text)) => r_once = Trimmed(r_in.text)
          /\ r_in.from # 0 => r_once = REGIONS_INSEE[r_in.from][2]
          /\ (r_in.from = 0 /\ ~OnlyDigits(Trimmed(r_in.text))) => r_once = r_in.text
    /\ rpc = "twice" => r_twice = r_once

\* C17 witness: "BOURGOGNE-FRANCHE-COMTE" with its accent, in upper case, was
\* mapped to 27, and 27 to itself.
C17_Witness ==
    /\ rpc = "twice" /\ r_in.from = 5 /\ r_in.text = UpperStr(REGIONS_INSEE[5][1])
    /\ r_once = <<"2", "7">> /\ r_twice = <<"2", "7">>

(***************************************************************************)
(* The query of a page request: src/recherche_entreprises.py:191-240.      *)
(***************************************************************************)
\* The requests of one search whose query is looked at.
MaxQueryPages == 2

\* re.match(r"^\d{4}[A-Za-z]$", secteur.strip()), line 193
IsLetter(c) == \E i \in 1..26 : UpperLetters[i] = c \/ LowerLetters[i] = c
IsNafCode_never(cs) == FALSE
IsNafCode(cs) ==
    /\ Len(cs) = 5
    /\ \A i \in 1..4 : cs[i] \in Digits
    /\ IsLetter(cs[5])

\* Lines 196-240: the params of the request for one page.
Params(a, par_page, pg) ==
    LET secteur == Or(a.secteur, EmptyStr)
        is_naf == PyTruthy(secteur) /\ IsNafCode(Strip(secteur.s))
        q_parts == IF PyTruthy(a.ville) THEN <<Strip(secteur.s), Strip(a.ville.s)>>
                   ELSE <<Strip(secteur.s)>>
    IN  MkDict(
         [api_token |-> Str(<<"PAPPERS_API_KEY">>),
          par_page |-> Num(par_page),
          page |-> Num(pg),
          entreprise_cessee |-> IF a.entreprise_cessee THEN Str(<<"true">>) ELSE Str(<<"false">>),
          code_naf |-> IF PyTruthy(secteur) /\ is_naf THEN Str(UpperStr(Strip(secteur.s)))
                       ELSE Absent,
          q |-> IF PyTruthy(secteur)
                THEN (IF is_naf THEN Absent ELSE Str(Join(q_parts, <<" ">>)))
                ELSE IF PyTruthy(a.ville) THEN Str(Strip(a.ville.s)) ELSE Absent,
          region |-> IF PyTruthy(a.region) THEN Str(region_to_code(a.region.s)) ELSE Absent,
          chiffre_affaires_min |-> IF PyTruthy(a.ca_min) THEN a.ca_min ELSE Absent,
          chiffre_affaires_max |-> IF PyTruthy(a.ca_max) THEN a.ca_max ELSE Absent,
          age_dirigeant_min |-> IF PyTruthy(a.age_min_dirigeant) THEN a.age_min_dirigeant
                                ELSE Absent,
          departement |-> IF PyTruthy(a.departement) THEN Str(Strip(a.departement.s))
                          ELSE Absent,
          categorie_juridique |-> IF PyTruthy(a.categorie_juridique) THEN a.categorie_juridique
                                  ELSE Absent,
          date_creation_min |-> IF PyTruthy(a.date_creation_min)
                                THEN Str(StrOf(a.date_creation_min)
                                         \o <<"-", "0", "1", "-", "0", "1">>)
                                ELSE Absent,
          statut_rcs |-> IF PyTruthy(a.statut_rcs) THEN a.statut_rcs ELSE Absent])

\* The criteria search_pappers may be called with.
Bretagne == Str(<<"B", "r", "e", "t", "a", "g", "n", "e">>)
Naf4322A == Str(<<"4", "3", "2", "2", "A">>)
QuerySecteurs ==
    {EmptyStr, Naf4322A, Str(<<" ", "4", "3", "2", "2", "a", " ">>), Str(<<"p", "l">>),
     Str(<<"4", "3", "2", "2", "0">>)}
QueryArgs ==
    {[secteur |-> se, ville |-> vi, region |-> re, departement |-> de, ca_min |-> nb[1],
      ca_max |-> nb[2], age_min_dirigeant |-> nb[3], categorie_juridique |-> adv[1],
      date_creation_min |-> adv[2], statut_rcs |-> adv[3], nom_entreprise |-> nm[1],
      nom_dirigeant |-> nm[2], prenom_dirigeant |-> nm[3], entreprise_cessee |-> ce,
      max_resultats |-> DEFAULT_WEB_MAX_RESULTATS] :
        se \in QuerySecteurs, vi \in {None, Str(<<"R">>)},
        re \in {None, Bretagne, Str(<<"5", "3">>), Str(<<"Z", "z">>)},
        de \in {None, Str(<<"3", "5">>)},
        nb \in {<<None, None, None>>, <<Num(500000), None, None>>,
                <<Num(500000), Num(900000), Num(55)>>},
        adv \in {<<None, None, None>>, <<None, Str(<<"2", "0", "0", "0">>), None>>,
                 <<Str(<<"5", "7", "1", "0">>), Str(<<"2", "0", "0", "0">>),
                   Str(<<"i", "n", "s", "c", "r", "i", "t">>)>>},
        nm \in {<<None, None, None>>, <<Str(<<"W">>), None, None>>,
                <<None, Str(<<"Y">>), Str(<<"V">>)>>},
        ce \in BOOLEAN}

\* The request for the next page: its params are built and sent.
QueryRequest ==
    /\ qpc = "loop"
    /\ q_page <= MaxQueryPages
    /\ q_params' = Params(q_args, ParPage(q_args.max_resultats), q_page)
    /\ q_sent' = q_sent + 1
    /\ q_page' = q_page + 1
    /\ UNCHANGED <<qpc, q_args>>
    /\ UNCHANGED exceptQuery

InitQuery ==
    /\ qpc = "loop" /\ q_args \in QueryArgs /\ q_page = 1 /\ q_sent = 0 /\ q_params = EmptyDict
    /\ IdleSearch /\ IdleApi /\ IdleEnrich /\ IdleLeads /\ IdleFilter /\ IdleExceptQuery

NextQuery == QueryRequest

SpecQuery == InitQuery /\ [][NextQuery]_vars

HasParam(key) == key \in DOMAIN q_params.s
FourDigitsOneLetter(cs) ==
    /\ Len(cs) = 5
    /\ \A i \in 1..4 : cs[i] \in Digits
    /\ cs[5] \notin Digits /\ cs[5] # " "

\* C12: on every page request a sector that is, once trimmed, four digits and
\* a letter is sent as code_naf and not as q; any other non-empty sector is
\* sent in q and not as code_naf; the region name Bretagne is sent as 53; and
\* entreprise_cessee is always sent, as "true" or "false".  The criteria
\* {secteur 4322A, region Bretagne, ca_min 500000} are sent as {code_naf 4322A,
\* region 53, chiffre_affaires_min 500000, entreprise_cessee false} with the
\* token and the paging.
C12_QueryMapping ==
    q_sent > 0 =>
        LET sec == Trimmed(q_args.secteur.s)
        IN  /\ FourDigitsOneLetter(sec) =>
                  /\ HasParam("code_naf") /\ ~HasParam("q")
                  /\ Lower(q_params.s.code_naf.s) = Lower(sec)
            /\ (sec # <<>> /\ ~FourDigitsOneLetter(sec)) =>
                  /\ HasParam("q") /\ ~HasParam("code_naf")
                  /\ SubSeq(q_params.s.q.s, 1, Len(sec)) = sec
            /\ q_args.region = Bretagne =>
                  HasParam("region") /\ q_params.s.region = Str(<<"5", "3">>)
            /\ HasParam("entreprise_cessee")
            /\ q_params.s.entreprise_cessee =
                  (IF q_args.entreprise_cessee THEN Str(<<"true">>) ELSE Str(<<"false">>))
            /\ (/\ q_args.secteur = Naf4322A /\ q_args.region = Bretagne
                /\ q_args.ca_min = Num(500000) /\ ~q_args.entreprise_cessee
                /\ \A f \in DOMAIN q_args \ {"secteur", "region", "ca_min", "entreprise_cessee",
                                            "max_resultats"} : q_args[f] = None)
               => q_params.s = [api_token |-> Str(<<"PAPPERS_API_KEY">>),
                                par_page |-> Num(20), page |-> Num(q_page - 1),
                                entreprise_cessee |-> Str(<<"false">>),
                                code_naf |-> Naf4322A, region |-> Str(<<"5", "3">>),
                                chiffre_affaires_min |-> Num(500000)]

\* C12 witness: the second page of {secteur 4322A, region Bretagne, ca_min
\* 500000} was requested with code_naf 4322A and region 53.
C12_Witness ==
    /\ q_sent = 2 /\ q_args.secteur = Naf4322A /\ q_args.region = Bretagne
    /\ q_args.ca_min = Num(500000) /\ q_args.ville = None
    /\ HasParam("code_naf") /\ q_params.s.code_naf = Naf4322A
    /\ q_params.s.region = Str(<<"5", "3">>) /\ q_params.s.page = Num(2)

\* A text criterion is carried by the query when some parameter holds its
\* trimmed text (the region: its code), a number when some parameter is it.
RECURSIVE Contains(_, _)
Contains(cs, sub) ==
    IF Len(sub) > Len(cs) THEN FALSE
    ELSE SubSeq(cs, 1, Len(sub)) = sub \/ Contains(Tail(cs), sub)
CarriesText(cs) ==
    \E key \in DOMAIN q_params.s \ {"api_token", "entreprise_cessee"} :
        IsStr(q_params.s[key]) /\ Contains(Lower(q_params.s[key].s), Lower(Trimmed(cs)))
CarriesNumber(i) ==
    \E key \in DOMAIN q_params.s \ {"par_page", "page"} : q_params.s[key] = Num(i)
TextCriteria ==
    {"secteur", "ville", "departement", "categorie_juridique", "date_creation_min",
     "nom_entreprise", "nom_dirigeant", "prenom_dirigeant"}
NumberCriteria == {"ca_min", "ca_max", "age_min_dirigeant"}

\* C20 (as claimed): the query of every page request carries every criterion
\* that is set.
C20_AllCriteriaSent ==
    q_sent > 0 =>
        /\ \A f \in TextCriteria :
              (q_args[f] # None /\ Trimmed(q_args[f].s) # <<>>) => CarriesText(q_args[f].s)
        /\ \A f \in NumberCriteria : q_args[f] # None => CarriesNumber(q_args[f].n)
        /\ q_args.region # None => HasParam("region")

\* C20, the part that holds: the sector, the region, the department, the
\* legal-form code, the revenue bounds, the executive's minimum age and the
\* creation date are sent whenever they are set, and the city whenever the
\* sector is no activity code.
SentCriteria == {"secteur", "departement", "categorie_juridique", "date_creation_min"}
C20_SentCriteria ==
    q_sent > 0 =>
        /\ \A f \in SentCriteria :
              (q_args[f] # None /\ Trimmed(q_args[f].s) # <<>>) => CarriesText(q_args[f].s)
        /\ \A f \in NumberCriteria : q_args[f] # None => CarriesNumber(q_args[f].n)
        /\ q_args.region # None => HasParam("region")
        /\ (q_args.ville # None /\ ~FourDigitsOneLetter(Trimmed(q_args.secteur.s)))
              => CarriesText(q_args.ville.s)

(***************************************************************************)
(* enrich_with_fullenrich, the batch (CLI) enrichment:                     *)
(* src/recherche_entreprises.py:447-606                                    *)
(***************************************************************************)
\* The function is called with up to MaxCliRecords records.
MaxCliRecords == 2

\* The fields of an extracted record that the function reads and writes.
CliRecord(p, nm) ==
    [_prenom |-> Str(p), _nom |-> Str(nm), email_dirigeant |-> "", mobile_dirigeant |-> ""]
CliRecords == {CliRecord(<<>>, <<>>), CliRecord(<<"J">>, <<"D">>), CliRecord(<<>>, <<"D">>)}

\* Lines 457-459: the positions of the records with an identified executive.
HasExecutive(c) == PyTruthy(c._nom) \/ PyTruthy(c._prenom)
RECURSIVE ToEnrich(_, _)
ToEnrich(cs, i) ==
    IF i > Len(cs) THEN <<>>
    ELSE (IF HasExecutive(cs[i]) THEN <<i>> ELSE <<>>) \o ToEnrich(cs, i + 1)

\* What get_fullenrich_credits returns (lines 430-441): the balance, or None
\* when the request fails.
CreditReplies == {None, Num(5)}

\* What input() gives at the prompt: a line, or KeyboardInterrupt / EOFError.
Typed(cs) == [kind |-> "line", text |-> cs]
PromptAnswers ==
    {Typed(<<" ", "O", "U", "I", " ">>), Typed(<<"n">>), Typed(<<>>), Typed(<<"o", "k">>),
     [kind |-> "interrupt", text |-> <<>>], [kind |-> "eof", text |-> <<>>]}

\* Lines 484-489: confirm = input(...).strip().lower() is one of the four words.
Confirms_any(answer) == answer.kind = "line"
Confirms(answer) ==
    /\ answer.kind = "line"
    /\ Lower(Strip(answer.text)) \in {<<"o">>, <<"o", "u", "i">>, <<"y">>, <<"y", "e", "s">>}

\* The answers of the remote to a poll of the batch enrichment: those of
\* PollReplies whose FINISHED payload is made of the two records below.
CliPayloadRecords == {ContactRecord("w@x", "p@x", "+33"), ContactRecord("", "p@x", "")}
CliReplies == {r \in PollReplies : \A i \in 1..Len(r.data) : r.data[i] \in CliPayloadRecords}

\* Lines 572-590: the j-th record of the payload is written to the j-th
\* submitted contact; records beyond the submitted contacts are ignored.
WriteResults_byPosition(cs, to_enrich, payload) ==
    [i \in 1..Len(cs) |->
        IF i <= Len(payload)
        THEN [cs[i] EXCEPT !.email_dirigeant = BestEmail(payload[i]),
                           !.mobile_dirigeant = payload[i].phone]
        ELSE cs[i]]
WriteResults(cs, to_enrich, payload) ==
    [i \in 1..Len(cs) |->
        IF \E j \in 1..Len(to_enrich) : to_enrich[j] = i /\ j <= Len(payload)
        THEN LET j == CHOOSE j \in 1..Len(to_enrich) : to_enrich[j] = i
             IN  [cs[i] EXCEPT !.email_dirigeant = BestEmail(payload[j]),
                               !.mobile_dirigeant = payload[j].phone]
        ELSE cs[i]]

\* Lines 453-491: nothing to enrich, or the summary (contacts to submit and
\* cost estimate, then the balance or the notice that it cannot be fetched),
\* the prompt and the operator's answer.
CliConfirm ==
    /\ cpc = "start"
    /\ IF ToEnrich(c_in, 1) = <<>>
       THEN /\ c_out' = c_in /\ cpc' = "returned" /\ c_outcome' = "nothing"
            /\ UNCHANGED <<c_shown, c_answer>>
       ELSE \E credits \in CreditReplies, answer \in PromptAnswers :
            /\ c_shown' = <<"estimate",
                            IF credits = None THEN "balance_unavailable" ELSE "balance",
                            "prompt">>
            /\ c_answer' = answer
            /\ IF Confirms(answer)
               THEN cpc' = "submit" /\ UNCHANGED <<c_out, c_outcome>>
               ELSE c_out' = c_in /\ cpc' = "returned" /\ c_outcome' = "declined"
    /\ UNCHANGED <<c_in, c_submitted, c_polls, c_payload>>
    /\ UNCHANGED exceptCli

\* Lines 493-538: the payload, the POST and the enrichment identifier.
CliSubmit ==
    /\ cpc = "submit"
    /\ c_submitted' = c_submitted + 1
    /\ \E reply \in SubmitReplies :
        IF reply = "ok" THEN cpc' = "poll" /\ UNCHANGED <<c_out, c_outcome>>
        ELSE c_out' = c_in /\ cpc' = "returned" /\ c_outcome' = "submit_error"
    /\ UNCHANGED <<c_in, c_shown, c_answer, c_polls, c_payload>>
    /\ UNCHANGED exceptCli

\* Lines 544-606: one iteration of the polling loop; the loop's else clause
\* (timeout) and the return follow the last one.  A network error and a 5xx
\* are caught and the loop goes on.
CliPollOn(reply) ==
    /\ c_polls' = c_polls + 1
    /\ CASE reply.code \in {402, 404, 429} ->
                /\ c_out' = c_in /\ cpc' = "returned" /\ c_outcome' = "rejected"
                /\ UNCHANGED c_payload
          [] reply.code = 200 /\ Upper(reply.status) = "FINISHED" ->
                /\ c_out' = WriteResults(c_in, ToEnrich(c_in, 1), reply.data)
                /\ cpc' = "returned" /\ c_outcome' = "finished"
                /\ c_payload' = reply.data
          [] reply.code = 200
             /\ Upper(reply.status) \in {"CANCELED", "CREDITS_INSUFFICIENT", "RATE_LIMIT"} ->
                /\ c_out' = c_in /\ cpc' = "returned" /\ c_outcome' = "rejected"
                /\ UNCHANGED c_payload
          [] OTHER ->
                /\ IF c_polls' = FULLENRICH_POLL_MAX
                   THEN c_out' = c_in /\ cpc' = "returned" /\ c_outcome' = "timeout"
                   ELSE UNCHANGED <<cpc, c_out, c_outcome>>
                /\ UNCHANGED c_payload
    /\ UNCHANGED <<c_in, c_shown, c_answer, c_submitted>>

CliPoll ==
    /\ cpc = "poll"
    /\ c_polls < FULLENRICH_POLL_MAX
    /\ \E reply \in CliReplies : CliPollOn(reply)
    /\ UNCHANGED exceptCli

InitCli ==
    /\ cpc = "start" /\ c_in \in SeqsUpTo(CliRecords, MaxCliRecords) /\ c_out = <<>>
    /\ c_shown = <<>> /\ c_answer = [kind |-> "none", text |-> <<>>] /\ c_submitted = 0
    /\ c_polls = 0 /\ c_outcome = "" /\ c_payload = <<>>
    /\ IdleSearch /\ IdleApi /\ IdleEnrich /\ IdleLeads /\ IdleFilter /\ IdleExceptCli

NextCli == CliConfirm \/ CliSubmit \/ CliPoll

SpecCli == InitCli /\ [][NextCli]_vars

Affirmative(answer) ==
    answer.kind = "line" /\ answer.text = <<" ", "O", "U", "I", " ">>
Declined == c_shown # <<>> /\ ~Affirmative(c_answer)

\* C13 (as claimed): nothing is submitted unless the operator answered the
\* prompt affirmatively, the prompt follows the display of the cost estimate
\* and of the current balance, and after a declined or interrupted prompt
\* nothing is submitted and the records are returned unchanged.
C13_ConfirmedAfterBalance ==
    /\ c_submitted > 0 => Affirmative(c_answer)
    /\ c_shown # <<>> => c_shown = <<"estimate", "balance", "prompt">>
    /\ Declined => (c_submitted = 0 /\ c_polls = 0 /\ cpc = "returned" /\ c_out = c_in)

\* C13 (amended): the same, the prompt following the cost estimate and the
\* balance line, which shows the current balance or, when it cannot be
\* fetched, that it is unavailable.
C13_ConfirmedAfterSummary ==
    /\ c_submitted > 0 => Affirmative(c_answer)
    /\ c_shown # <<>> =>
          c_shown \in {<<"estimate", "balance", "prompt">>,
                       <<"estimate", "balance_unavailable", "prompt">>}
    /\ (c_submitted > 0 \/ c_polls > 0) => c_shown # <<>>
    /\ Declined => (c_submitted = 0 /\ c_polls = 0 /\ cpc = "returned" /\ c_out = c_in)

\* C13 witness: the operator typed " OUI " after the summary and the batch
\* was submitted.
C13_Witness ==
    /\ c_submitted = 1 /\ c_answer = Typed(<<" ", "O", "U", "I", " ">>)
    /\ c_shown = <<"estimate", "balance", "prompt">> /\ cpc = "poll"

(***************************************************************************)
(* api_vendeurs_enrich, the enrichment of one stored lead:                 *)
(* src/app.py:581-632.  It runs _do_fullenrich_enrich (EnrichSubmit,       *)
(* EnrichPoll) with the one contact it builds from the lead.               *)
(***************************************************************************)
\* The store is not configured, the lead is not found, or it is.
LeadLookups == {"no_supabase", "not_found", "found"}

\* Lines 589-610: 500 without a store, 404 without the lead, else the one
\* contact built from the lead is handed to _do_fullenrich_enrich.
VEnrichStart ==
    /\ vpc = "start"
    /\ \E found \in LeadLookups :
        CASE found = "no_supabase" ->
                /\ vresponse' = [status |-> 500, kind |-> "error", error |-> "supabase"]
                /\ vpc' = "done" /\ UNCHANGED <<epc, contacts>>
          [] found = "not_found" ->
                /\ vresponse' = [status |-> 404, kind |-> "error", error |-> "not_found"]
                /\ vpc' = "done" /\ UNCHANGED <<epc, contacts>>
          [] OTHER ->
                /\ contacts' = 1 /\ epc' = "submit" /\ vpc' = "enrich"
                /\ UNCHANGED vresponse
    /\ UNCHANGED <<v_lead, submitted, polls, nonTerminal, lastPoll, enrich_result, raised, eresponse>>
    /\ UNCHANGED exceptVEnrich

\* Lines 611-616: the exception as the HTTP response, str(e) as its text.
VEnrichResponse(excs) ==
    IF excs = <<>> THEN [status |-> 200, kind |-> "result", error |-> ""]
    ELSE LET e == excs[Len(excs)]
         IN  CASE e.type \in {"ValueError", "TimeoutError"} ->
                    [status |-> 400, kind |-> "error", error |-> e.cause]
               [] OTHER -> [status |-> 502, kind |-> "error", error |-> e.cause]

\* Lines 618-626: the first record of the result, its non-empty email and
\* mobile written to the lead.
EnrichUpdate(lead, res) ==
    IF res.enriched = <<>> THEN lead
    ELSE LET e0 == res.enriched[1]
         IN  [email     |-> IF e0.email # "" THEN e0.email ELSE lead.email,
              telephone |-> IF e0.mobile # "" THEN e0.mobile ELSE lead.telephone]

\* Lines 611-632: the reply, after the update of the lead when the
\* enrichment succeeded.
VEnrichRespond ==
    /\ vpc = "enrich" /\ epc = "ended"
    /\ vresponse' = VEnrichResponse(raised)
    /\ v_lead' = IF raised = <<>> THEN EnrichUpdate(v_lead, enrich_result) ELSE v_lead
    /\ vpc' = "done"
    /\ UNCHANGED enrichVars
    /\ UNCHANGED exceptVEnrich

InitVEnrich ==
    /\ vpc = "start" /\ v_lead \in {[email |-> "", telephone |-> ""], [email |-> "old@x", telephone |-> ""]}
    /\ vresponse = [status |-> 0, kind |-> "none", error |-> ""]
    /\ IdleSearch /\ IdleApi /\ IdleEnrich /\ IdleLeads /\ IdleFilter /\ IdleExceptVEnrich

NextVEnrich ==
    \/ VEnrichStart
    \/ vpc = "enrich" /\ (EnrichSubmit \/ EnrichPoll)
    \/ VEnrichRespond

SpecVEnrich == InitVEnrich /\ [][NextVEnrich]_vars

\* The two service operations that run the enrichment.
InitServiceEnrich == InitEnrich \/ InitVEnrich
NextServiceEnrich == (vpc = "idle" /\ NextEnrich) \/ NextVEnrich
SpecServiceEnrich == InitServiceEnrich /\ [][NextServiceEnrich]_vars

\* The rejections of _do_fullenrich_enrich: the ValueError it raises.
Rejections ==
    {Exc("ValueError", c, n) : c \in {"credits", "client_error", "no_id"} \cup FailStatuses,
                               n \in {0, 402, 404, 429}}
TimedOut == raised # <<>> /\ raised[Len(raised)].type = "TimeoutError"

\* C14: on the bulk enrichment and on the enrichment of a stored lead, the
\* exhaustion of the poll attempts is answered with a status that no
\* rejected enrichment is answered with.
C14_TimeoutDistinct ==
    /\ (epc = "done" /\ TimedOut) =>
          eresponse.status \notin {EnrichResponse(NoResult, <<r>>).status : r \in Rejections}
    /\ (vpc = "done" /\ TimedOut) =>
          vresponse.status \notin {VEnrichResponse(<<r>>).status : r \in Rejections}

\* C14, the bulk enrichment alone: 504 for the timeout, 400 for a rejection.
C14_BulkTimeoutDistinct ==
    (epc = "done" /\ TimedOut) =>
        /\ eresponse.status = 504
        /\ \A r \in Rejections : EnrichResponse(NoResult, <<r>>).status = 400

(***************************************************************************)
(* api_vendeurs_create under concurrent requests: src/app.py:503-542.      *)
(* The server handles requests in parallel; the existence check (line 533) *)
(* and the insert (line 539) are two requests to the datastore, and the    *)
(* steps of other handlers may come between them.                          *)
(***************************************************************************)
\* MaxWriters create requests are in flight.
MaxWriters == 2
Writers == 1..MaxWriters

Step(w, what) == [w |-> w, step |-> what]

\* Lines 530-538: the row has no siren and nothing is checked, or the
\* datastore is asked for the rows with that siren: it raises (500), finds
\* one (409) or finds none.
CreateCheck(w) ==
    /\ w_pc[w] = "check"
    /\ IF w_body[w].siren = ""
       THEN w_pc' = [w_pc EXCEPT ![w] = "insert"] /\ UNCHANGED <<w_status, w_log>>
       ELSE /\ w_log' = Append(w_log, Step(w, "check"))
            /\ \E db \in BOOLEAN :
                IF ~db
                THEN /\ w_status' = [w_status EXCEPT ![w] = 500]
                     /\ w_pc' = [w_pc EXCEPT ![w] = "done"]
                ELSE IF Existing(vendeurs, w_body[w].siren) # {}
                THEN /\ w_status' = [w_status EXCEPT ![w] = 409]
                     /\ w_pc' = [w_pc EXCEPT ![w] = "done"]
                ELSE w_pc' = [w_pc EXCEPT ![w] = "insert"] /\ UNCHANGED w_status
    /\ UNCHANGED <<w_body, leadVars>>
    /\ UNCHANGED exceptConc

\* Line 539: insert(row) adds the row, whatever the table holds.
Inserted_unique(table, row) ==
    IF row.siren # "" /\ Existing(table, row.siren) # {} THEN table ELSE table \cup {row}
Inserted(table, row) == table \cup {row}

\* Lines 539-542: the insert, answered 201, or 500 when the datastore raises.
CreateInsert(w) ==
    /\ w_pc[w] = "insert"
    /\ w_log' = Append(w_log, Step(w, "insert"))
    /\ w_pc' = [w_pc EXCEPT ![w] = "done"]
    /\ \E db \in BOOLEAN :
        IF ~db
        THEN w_status' = [w_status EXCEPT ![w] = 500] /\ UNCHANGED <<vendeurs, nextId>>
        ELSE /\ vendeurs' = Inserted(vendeurs,
                    [id |-> nextId, siren |-> w_body[w].siren,
                     statut |-> IF w_body[w].statut = "" THEN "prospect" ELSE w_body[w].statut])
             /\ nextId' = nextId + 1
             /\ w_status' = [w_status EXCEPT ![w] = 201]
    /\ UNCHANGED <<w_body, lpc, lastReq, lresponse>>
    /\ UNCHANGED exceptConc

InitConc ==
    /\ w_pc = [w \in Writers |-> "check"]
    /\ w_body \in [Writers -> LeadBodies]
    /\ w_status = [w \in Writers |-> 0]
    /\ w_log = <<>>
    /\ IdleSearch /\ IdleApi /\ IdleEnrich /\ IdleLeads /\ IdleFilter /\ IdleExceptConc

NextConc == \E w \in Writers : CreateCheck(w) \/ CreateInsert(w)

SpecConc == InitConc /\ [][NextConc]_vars

\* The position of a step in the log, 0 when it was not taken.
At(w, what) ==
    IF \E i \in 1..Len(w_log) : w_log[i] = Step(w, what)
    THEN CHOOSE i \in 1..Len(w_log) : w_log[i] = Step(w, what)
    ELSE 0
\* w checked, and the other request had not inserted yet.
CheckedBeforeInsertOf(w, o) == At(w, "check") > 0 /\ (At(o, "insert") = 0 \/ At(w, "check") < At(o, "insert"))
SameSiren(w, o) == w # o /\ w_body[w].siren # "" /\ w_body[w].siren = w_body[o].siren
RowsWith(s) == {r \in vendeurs : r.siren = s}

InsertedBeforeCheckOf(o, w) ==
    At(o, "insert") > 0 /\ w_status[o] = 201 /\ At(w, "check") > At(o, "insert")

\* C18: of two create requests with the same non-empty siren, when each made
\* its existence check before the insert of the other and both inserts were
\* done, the datastore answering, two stored leads share the siren and both
\* requests are answered 201; a request is refused as a duplicate only when
\* its check followed the successful insert of another request with that
\* siren, and then it always is (or fails) and inserts nothing.
C18_CheckThenInsertNotAtomic ==
    \A w \in Writers :
        /\ w_status[w] = 409 => \E o \in Writers : SameSiren(w, o) /\ InsertedBeforeCheckOf(o, w)
        /\ \A o \in Writers :
            SameSiren(w, o) =>
                /\ (/\ CheckedBeforeInsertOf(w, o) /\ CheckedBeforeInsertOf(o, w)
                    /\ w_status[w] = 201 /\ w_status[o] = 201) =>
                      Cardinality(RowsWith(w_body[w].siren)) >= 2
                /\ InsertedBeforeCheckOf(o, w) =>
                      w_status[w] \in {409, 500} /\ At(w, "insert") = 0

\* C18 witness: both requests checked, then both inserted, and two stored
\* leads share the siren "A".
C18_Witness ==
    /\ w_log = <<Step(1, "check"), Step(2, "check"), Step(1, "insert"), Step(2, "insert")>>
    /\ w_body[1].siren = "A" /\ w_body[2].siren = "A"
    /\ w_status[1] = 201 /\ w_status[2] = 201
    /\ Cardinality(RowsWith("A")) = 2

(***************************************************************************)
(* extract_company_info and the workforce: the six fields it reads, each   *)
(* missing, null, zero or empty, or with a value of its own                *)
(* (src/recherche_entreprises.py:331-341).                                 *)
(***************************************************************************)
WorkforceCompanies ==
    {MkDict([nom_entreprise |-> Str(<<"N">>), effectifs_finances |-> ef, effectif |-> e,
             tranche_effectif |-> t]) :
        ef \in {Absent, None, Num(0), Num(42)},
        e \in {Absent, EmptyStr, Str(<<"1", "1">>)},
        t \in {Absent, Str(<<"T">>)}}
WorkforceDetails ==
    {MkDict([effectif |-> e, finances |-> f, tranche_effectif |-> t, representants |-> r]) :
        e \in {Absent, Num(0), Str(<<"1", "0">>)},
        f \in {Absent, List(<<>>), List(<<Finance>>), List(<<Dict([effectif |-> None])>>),
               List(<<None>>)},
        t \in {Absent, Str(<<"U">>)},
        r \in {Absent, List(<<Jean>>), List(<<Holding>>)}}

InitWorkforce ==
    /\ xpc = "call" /\ x_company \in WorkforceCompanies /\ x_details \in WorkforceDetails
    /\ x_result = [ok |-> FALSE, v |-> NoExtract]
    /\ IdleSearch /\ IdleApi /\ IdleEnrich /\ IdleLeads /\ IdleFilter /\ IdleExceptExtract

SpecWorkforce == InitWorkforce /\ [][NextExtract]_vars

\* The six sources in the order of the claim; None stands for a missing one.
FirstEntryEffectif(details) ==
    LET f == GetNone(details, "finances")
    IN  IF IsList(f) /\ Len(f.s) > 0 /\ IsDict(f.s[1]) THEN GetNone(f.s[1], "effectif") ELSE None
WorkforceSources(company, details) ==
    <<GetNone(company, "effectifs_finances"), GetNone(details, "effectif"),
      GetNone(company, "effectif"), FirstEntryEffectif(details),
      GetNone(details, "tranche_effectif"), GetNone(company, "tranche_effectif")>>
FirstWhere(seq, Test(_)) ==
    IF \E i \in 1..Len(seq) : Test(seq[i])
    THEN seq[CHOOSE i \in 1..Len(seq) : Test(seq[i]) /\ \A j \in 1..(i - 1) : ~Test(seq[j])]
    ELSE EmptyStr
IsValue(v) == v # None /\ v # EmptyStr

\* C21 (as claimed): the workforce of the extracted record is the first of the
\* six sources that holds a value, the empty string when none does; and a
\* search record that carries effectifs_finances gives the workforce that
\* value whatever the detail record holds.
C21_WorkforcePrecedence ==
    xpc = "returned" =>
        /\ x_result.ok
        /\ x_result.v.effectif = FirstWhere(WorkforceSources(x_company, x_details), IsValue)
        /\ IsValue(GetNone(x_company, "effectifs_finances")) =>
              x_result.v.effectif = GetNone(x_company, "effectifs_finances")

\* C21, the part that holds: when the call returns, the workforce is the
\* first of the six sources that is truthy (a 0 counts as missing), the empty
\* string when none is.
C21_TruthyPrecedence ==
    (xpc = "returned" /\ x_result.ok) =>
        x_result.v.effectif = FirstWhere(WorkforceSources(x_company, x_details), PyTruthy)

(***************************************************************************)
(* extract_company_info and the primary executive: the three lists it      *)
(* reads and the entry it keeps (src/recherche_entreprises.py:354-378).    *)
(***************************************************************************)
\* A list of executives has up to MaxExecutives entries.
MaxExecutives == 2

\* Entries: a natural person flagged as such, one without the flag, a legal
\* entity, and an entry without any field.
Paul == Dict([personne_morale |-> Bool(FALSE), prenom |-> Str(<<"P">>), nom |-> Str(<<"Q">>)])
Firm == Dict([personne_morale |-> Bool(TRUE), prenom |-> EmptyStr, nom |-> Str(<<"F">>)])
ExecutiveEntries == {Paul, Anne, Firm, EmptyDict}
ExecutiveLists == {List(l) : l \in SeqsUpTo(ExecutiveEntries, MaxExecutives)}

ExecutiveCompanies ==
    {MkDict([nom_entreprise |-> Str(<<"N">>), dirigeants |-> ds]) :
        ds \in {Absent, List(<<Jean>>), List(<<Firm>>)}}
ExecutiveDetails ==
    {MkDict([representants |-> r, dirigeants |-> ds]) :
        r \in {Absent, None} \cup ExecutiveLists, ds \in {Absent, List(<<>>), List(<<Anne>>)}}

InitExecutive ==
    /\ xpc = "call" /\ x_company \in ExecutiveCompanies /\ x_details \in ExecutiveDetails
    /\ x_result = [ok |-> FALSE, v |-> NoExtract]
    /\ IdleSearch /\ IdleApi /\ IdleEnrich /\ IdleLeads /\ IdleFilter /\ IdleExceptExtract

SpecExecutive == InitExecutive /\ [][NextExtract]_vars

\* The three lists in the order of the claim, <<>> for one that is missing,
\* null or empty, and the first of them that has an entry.
EntriesAt(d, key) == IF IsList(GetNone(d, key)) THEN GetNone(d, key).s ELSE <<>>
ExecutiveSources(company, details) ==
    <<EntriesAt(details, "representants"), EntriesAt(details, "dirigeants"),
      EntriesAt(company, "dirigeants")>>
HasEntry(l) == l # <<>>
ChosenList(company, details) ==
    LET src == ExecutiveSources(company, details)
    IN  IF \E i \in 1..3 : HasEntry(src[i])
        THEN src[CHOOSE i \in 1..3 : HasEntry(src[i]) /\ \A j \in 1..(i - 1) : ~HasEntry(src[j])]
        ELSE <<>>
NotLegalEntity(d) == Get(d, "personne_morale", Bool(FALSE)) \in {Bool(FALSE), None}
FirstNatural(l) ==
    l[CHOOSE i \in 1..Len(l) : NotLegalEntity(l[i]) /\ \A j \in 1..(i - 1) : ~NotLegalEntity(l[j])]

\* The names the record carries for an entry.
CarriesNamesOf(rec, d) ==
    /\ rec._prenom = Str(Strip(Get(d, "prenom", EmptyStr).s))
    /\ rec._nom = Str(Strip(Get(d, "nom", EmptyStr).s))

PairInputs == {cs \in SeqsUpTo(CliRecords, MaxCliRecords) : ToEnrich(cs, 1) # <<>>}

InitPair ==
    /\ c_in \in PairInputs
    /\ cpc = "poll" /\ c_out = <<>> /\ c_shown = <<"estimate", "balance", "prompt">>
    /\ c_answer = Typed(<<" ", "O", "U", "I", " ">>) /\ c_submitted = 1 /\ c_polls = 0 /\ c_outcome = ""
    /\ c_payload = <<>>
    /\ epc = "poll" /\ contacts = Len(ToEnrich(c_in, 1)) /\ submitted = 1 /\ polls = 0
    /\ nonTerminal = 0 /\ lastPoll = NoReply /\ enrich_result = NoResult /\ raised = <<>>
    /\ eresponse = NoResponse
    /\ IdlePair

\* The answers of the remote: those of PollReplies whose FINISHED payload has
\* at most one record.
PairReplies == {r \in PollReplies : Len(r.data) <= 1}

\* The next answer of the remote, given to each loop that is still polling.
PairPoll ==
    \E reply \in PairReplies :
        /\ epc = "poll" \/ cpc = "poll"
        /\ IF epc = "poll" /\ polls < PollAttempts
           THEN EnrichPollOn(reply) ELSE UNCHANGED enrichVars
        /\ IF cpc = "poll" /\ c_polls < FULLENRICH_POLL_MAX
           THEN CliPollOn(reply) ELSE UNCHANGED cliVars
        /\ UNCHANGED exceptPair

NextPair == PairPoll

SpecPair == InitPair /\ [][NextPair]_vars

\* How the service enrichment ended: with the results, a rejection
\* (ValueError), a timeout (TimeoutError) or a transport error.
ServiceOutcome ==
    IF raised = <<>> THEN "finished"
    ELSE CASE raised[Len(raised)].type = "ValueError" -> "rejected"
           [] raised[Len(raised)].type = "TimeoutError" -> "timeout"
           [] OTHER -> "transport_error"
TransportError ==
    raised # <<>> /\ raised[Len(raised)].type \in {"RequestException", "HTTPError"}

\* C23: given the same answers, the two loops have issued the same number of
\* polls, either both polling or both stopped, and once stopped they ended in
\* the same way (results, rejection or timeout).
C23_SamePollsSameOutcome ==
    /\ polls = c_polls
    /\ (epc = "ended") <=> (cpc = "returned")
    /\ (epc = "ended" /\ cpc = "returned") => ServiceOutcome = c_outcome

\* C23, the part that holds: the loops differ only once the service loop
\* was stopped by a network error or a 5xx answer.
C23_SameUnlessTransportError ==
    ~TransportError =>
        /\ polls = c_polls
        /\ (epc = "ended") <=> (cpc = "returned")
        /\ (epc = "ended" /\ cpc = "returned") => ServiceOutcome = c_outcome

(***************************************************************************)
(* Step 3 of main: the enrichment of the first max_enrichissements         *)
(* records (src/recherche_entreprises.py:697-706).                         *)
(***************************************************************************)
\* The extracted record at position i of the list, with or without an
\* identified executive; the name of the company tells the records apart.
MainRecord(i, p, nm) ==
    [nom_entreprise |-> Str(<<"N", DigitChar(i)>>), _prenom |-> Str(p), _nom |-> Str(nm),
     email_dirigeant |-> "", mobile_dirigeant |-> ""]
MainRecordsAt(i) == {MainRecord(i, <<>>, <<>>), MainRecord(i, <<"J">>, <<"D">>)}
RECURSIVE MainLists(_)
MainLists(n) ==
    IF n = 0 THEN {<<>>}
    ELSE LET R == MainLists(n - 1)
         IN  R \cup {Append(q, x) : q \in {r \in R : Len(r) = n - 1}, x \in MainRecordsAt(n)}

\* companies_info[:n] and companies_info[n:], n >= 0
FirstN(cs, n) == SubSeq(cs, 1, Min(n, Len(cs)))
AfterN(cs, n) == SubSeq(cs, Min(n, Len(cs)) + 1, Len(cs))

\* Lines 698-706: the first max_enrichissements records are handed to
\* enrich_with_fullenrich, or nothing is when the option is not positive.
MainSlice ==
    /\ m_pc = "start"
    /\ IF m_max > 0
       THEN /\ c_in' = FirstN(m_all, m_max) /\ cpc' = "start" /\ m_pc' = "enrich"
            /\ UNCHANGED m_out
       ELSE /\ m_out' = m_all /\ m_pc' = "done"
            /\ UNCHANGED <<c_in, cpc>>
    /\ UNCHANGED <<m_all, m_max, c_out, c_shown, c_answer, c_submitted, c_polls, c_outcome, c_payload>>
    /\ UNCHANGED exceptMain

\* Lines 702-703: companies_info = to_enrich + rest
MainJoin ==
    /\ m_pc = "enrich" /\ cpc = "returned"
    /\ m_out' = c_out \o AfterN(m_all, m_max)
    /\ m_pc' = "done"
    /\ UNCHANGED <<m_all, m_max, cliVars>>
    /\ UNCHANGED exceptMain

InitMain ==
    /\ m_pc = "start" /\ m_all \in MainLists(MaxCliRecords) /\ m_max \in 0..(MaxCliRecords + 1)
    /\ m_out = <<>>
    /\ IdleSearch /\ IdleApi /\ IdleEnrich /\ IdleLeads /\ IdleFilter /\ IdleExceptMain

NextMain == MainSlice \/ (m_pc = "enrich" /\ NextCli) \/ MainJoin

SpecMain == InitMain /\ [][NextMain]_vars

\* The positions of the submitted contacts: the records with an identified
\* executive among the first m_max, in order.
RECURSIVE SubmittedFrom(_)
SubmittedFrom(i) ==
    IF i > Len(m_all) \/ i > m_max THEN <<>>
    ELSE (IF m_all[i]._nom # EmptyStr \/ m_all[i]._prenom # EmptyStr THEN <<i>> ELSE <<>>)
         \o SubmittedFrom(i + 1)
SameButContact(a, b) ==
    a.nom_entreprise = b.nom_entreprise /\ a._prenom = b._prenom /\ a._nom = b._nom

\* C24: the exported list has the records of the extracted one, in number
\* and order, every field but the email and the phone as it was; a record is
\* changed only if the enrichment finished, it is among the first m_max and
\* it has an identified executive; the j-th record of the results goes to the
\* j-th submitted contact, contacts beyond the results keeping their fields;
\* and when the enrichment did not finish every record is as it was.
C24_OnlyContactFieldsChange ==
    m_pc = "done" =>
        LET sub == SubmittedFrom(1)
        IN  /\ Len(m_out) = Len(m_all)
            /\ \A i \in 1..Len(m_all) : SameButContact(m_out[i], m_all[i])
            /\ \A i \in 1..Len(m_all) :
                  m_out[i] # m_all[i] =>
                      c_outcome = "finished" /\ \E j \in 1..Len(sub) : sub[j] = i
            /\ (m_max > 0 /\ c_outcome = "finished") =>
                  \A j \in 1..Len(sub) :
                      IF j <= Len(c_payload)
                      THEN /\ m_out[sub[j]].email_dirigeant = BestEmail(c_payload[j])
                           /\ m_out[sub[j]].mobile_dirigeant = c_payload[j].phone
                      ELSE m_out[sub[j]] = m_all[sub[j]]
            /\ (m_max = 0 \/ c_outcome # "finished") => m_out = m_all

\* C24 witness: of two records with an executive the first alone was
\* submitted, the enrichment finished with two records, and the exported list
\* has the email and phone of the first result in its first record only.
C24_Witness ==
    /\ m_pc = "done" /\ m_max = 1 /\ c_outcome = "finished"
    /\ m_all = <<MainRecord(1, <<"J">>, <<"D">>), MainRecord(2, <<"J">>, <<"D">>)>>
    /\ Len(c_payload) = 2 /\ c_payload[1] = ContactRecord("", "p@x", "")
    /\ m_out[1].email_dirigeant = "p@x" /\ m_out[2] = m_all[2]

(***************************************************************************)
(* The whole program: any of the components.                               *)
(***************************************************************************)
Init ==
    \/ InitSearch \/ InitApi \/ InitEnrich \/ InitLeads \/ InitFilter
    \/ InitOrch \/ InitExtract \/ InitRegion \/ InitQuery \/ InitCli \/ InitVEnrich \/ InitConc \/ InitPair \/ InitMain

Next ==
    \/ NextSearch \/ NextApi \/ NextEnrich \/ NextLeads \/ NextFilter
    \/ NextOrch \/ NextExtract \/ NextRegion \/ NextQuery \/ NextCli \/ NextVEnrich \/ NextConc \/ NextPair \/ NextMain

Spec == Init /\ [][Next]_vars

====
